---- MODULE Spec2Model ----
(***************************************************************************)
(* State-machine model of the session-integrity core of teleton-agent:     *)
(*   - MessageDebouncer          (src/src/telegram/debounce.ts)            *)
(*   - the deal service          (src/src/utils/gramjs-bigint.ts)          *)
(* Each subsystem has its own specification (SpecDebounce, SpecDeal); the  *)
(* variables of the other subsystem stay unchanged under it.               *)
(*                                                                         *)
(* Execution model of the debouncer: JavaScript runs every synchronous     *)
(* stretch of code to completion, so one action is one such stretch: from  *)
(* the start of a call, or from the settling of an awaited handler         *)
(* promise, up to the next await of a pending handler promise (or the end  *)
(* of the call).  Between two actions any other call, timer callback or    *)
(* handler settlement may run.  Timers are ideal: an armed timer fires     *)
(* before the clock passes its deadline.  The error callback (onError) is  *)
(* taken not to throw.                                                     *)
(***************************************************************************)
EXTENDS Integers, Sequences, FiniteSets, TLC

\* ---------------------------------------------------------------- bounds
MaxMsgs == 3        \* number of enqueue calls explored
MaxTime == 4        \* last instant (ms) of the debouncer's clock
MaxLag  == 1        \* how far (ms) an event's timestamp may lie before its enqueue

\* ------------------------------------------------------- debouncer: types
Keys    == {"A", "B"}          \* chat ids
NoBuf   == 0                   \* Map.get(key) === undefined
NoTimer == -1                  \* buffer.timer === null (or already fired)
Unset   == -1                  \* an optional config field left undefined

DEBOUNCE_MAX_MULTIPLIER  == 3
DEBOUNCE_MAX_BUFFER_SIZE == 3

\* The DebounceConfig objects the debouncer is constructed with.
Configs ==
  { [debounceMs |-> 2, maxDebounceMs |-> 3,     maxBufferSize |-> 2],
    [debounceMs |-> 2, maxDebounceMs |-> 3,     maxBufferSize |-> 1],
    [debounceMs |-> 0, maxDebounceMs |-> Unset, maxBufferSize |-> Unset] }

\* DebounceConfig objects that leave maxDebounceMs (and maxBufferSize) to the
\* constructor's defaults, beside one that sets them.
DefaultConfigs ==
  { [debounceMs |-> 1, maxDebounceMs |-> Unset, maxBufferSize |-> Unset],
    [debounceMs |-> 2, maxDebounceMs |-> Unset, maxBufferSize |-> 2],
    [debounceMs |-> 2, maxDebounceMs |-> 3,     maxBufferSize |-> 2] }

VARIABLES
  config,        \* this.config
  maxDebounceMs, \* this.maxDebounceMs
  maxBufferSize, \* this.maxBufferSize
  now,           \* Date.now(), ms
  nEnq,          \* number of enqueue calls so far (the next message gets id nEnq + 1)
  heap,          \* DebounceBuffer objects not yet flushed: id -> [key, messages, timer, ...]
  buffers,       \* this.buffers: key -> buffer id, or NoBuf
  order,         \* insertion order of the keys of this.buffers
  inflight,      \* onFlush promises not yet settled, each with its batch and the code awaiting it
  handed,        \* history: message id -> number of onFlush batches it was part of
  failed,        \* the batch (as message ids) whose handler threw or rejected in the last step, if any
  errors,        \* the batch (as message ids) passed to onError in the last step, if any
  thrown,        \* number of rejections that reached a caller of enqueue/flushAll
  fa,            \* the flushAll call: idle, running (suspended in its loop) or done
  epoch          \* history: per key, ids of the debounced enqueues since the key's last flush began

debVars == <<config, maxDebounceMs, maxBufferSize, now, nEnq, heap, buffers, order,
             inflight, handed, failed, errors, thrown, fa, epoch>>

\* ------------------------------------------------------ debouncer: helpers
Min(a, b) == IF a <= b THEN a ELSE b
Max(a, b) == IF a >= b THEN a ELSE b
Range(s)  == { s[i] : i \in 1..Len(s) }
Ids(s)    == { s[i].id : i \in 1..Len(s) }
Remove(s, x) == SelectSeq(s, LAMBDA y : y # x)

\* constructor: this.maxDebounceMs = config.maxDebounceMs ?? debounceMs * MULTIPLIER
CtorMaxDebounceMs(c) ==
  IF c.maxDebounceMs # Unset THEN c.maxDebounceMs
  ELSE c.debounceMs * DEBOUNCE_MAX_MULTIPLIER

\* constructor: this.maxBufferSize = config.maxBufferSize ?? DEBOUNCE_MAX_BUFFER_SIZE
CtorMaxBufferSize(c) ==
  IF c.maxBufferSize # Unset THEN c.maxBufferSize ELSE DEBOUNCE_MAX_BUFFER_SIZE

\* Mutant of SortByTimestamp: the batch is handed in arrival order.
SortKeepsArrivalOrder(s) == s

\* Array.prototype.sort with (a, b) => a.timestamp - b.timestamp: a stable
\* sort by timestamp ascending (each element goes after its equals).
RECURSIVE InsertByTimestamp(_, _)
InsertByTimestamp(m, s) ==
  IF s = <<>> THEN <<m>>
  ELSE IF m.timestamp < Head(s).timestamp THEN <<m>> \o s
  ELSE <<Head(s)>> \o InsertByTimestamp(m, Tail(s))

RECURSIVE SortByTimestamp(_)
SortByTimestamp(s) ==
  IF s = <<>> THEN <<>>
  ELSE InsertByTimestamp(s[Len(s)], SortByTimestamp(SubSeq(s, 1, Len(s) - 1)))

\* getBufferDepth(chatId)
getBufferDepth(k) ==
  IF buffers[k] = NoBuf THEN 0 ELSE Len(heap[buffers[k]].messages)

\* An enqueue for key k is suspended in its buffer-full branch (awaiting flushKey).
FullSuspended(fl, k) ==
  \E h \in fl : h.cont.kind = "full" /\ h.cont.msg.chatId = k

NoMsg   == [id |-> 0, chatId |-> "", timestamp |-> 0, debounce |-> FALSE]
EndCont == [kind |-> "end", msg |-> NoMsg, rest |-> <<>>]

\* The mutable state of the debouncer as one record, so that the code's
\* sequential statements compose as function applications.
Cur ==
  [heap |-> heap, buffers |-> buffers, order |-> order, inflight |-> inflight,
   handed |-> handed, failed |-> {}, errors |-> {}, thrown |-> thrown,
   fa |-> fa, epoch |-> epoch]

Commit(S) ==
  /\ heap' = S.heap
  /\ buffers' = S.buffers
  /\ order' = S.order
  /\ inflight' = S.inflight
  /\ handed' = S.handed
  /\ failed' = S.failed
  /\ errors' = S.errors
  /\ thrown' = S.thrown
  /\ fa' = S.fa
  /\ epoch' = S.epoch

\* Mutant of TimerDelay: the delay is the configured interval, not clamped.
TimerDelayNoClamp(firstMsgTime) == config.debounceMs

\* resetTimer: delay = min(debounceMs, max(0, maxDebounceMs - (now - firstMsgTime)))
TimerDelay(firstMsgTime) ==
  LET elapsed   == now - firstMsgTime
      remaining == Max(0, maxDebounceMs - elapsed)
  IN  Min(config.debounceMs, remaining)

\* resetTimer(key, buffer): clearTimeout of the buffer's own timer, then arm a
\* new one whose callback is flushKey(key).
resetTimer(S, b) ==
  [S EXCEPT !.heap[b].timer = now + TimerDelay(S.heap[b].messages[1].timestamp)]

\* processMessages up to its await: sort in place, call onFlush(sorted); the
\* promise is pending and `cont` is the code that runs once it settles.
processMessages(S, messages, info, cont) ==
  LET sorted == SortByTimestamp(messages)
  IN  [S EXCEPT
        !.handed   = [i \in DOMAIN @ |-> IF i \in Ids(sorted) THEN @[i] + 1 ELSE @[i]],
        !.inflight = @ \cup {[batch |-> sorted, key |-> info.key, cause |-> info.cause,
                              openedAt |-> info.openedAt, via |-> info.via,
                              epoch |-> info.epoch, cont |-> cont]}]

\* Mutant of flushKey: the flush clears the timer of every buffer, whatever its key.
flushKeyClearsEveryTimer(S, key, cause, cont) ==
  LET b   == S.buffers[key]
      buf == S.heap[b]
      S1  == [S EXCEPT !.buffers[key] = NoBuf,
                       !.order = Remove(@, key),
                       !.heap = [x \in (DOMAIN S.heap) \ {b} |-> [S.heap[x] EXCEPT !.timer = NoTimer]],
                       !.epoch[key] = {}]
  IN  IF buf.messages = <<>> THEN S1
      ELSE processMessages(S1, buf.messages,
             [key |-> key, cause |-> cause, openedAt |-> buf.openedAt,
              via |-> buf.via, epoch |-> S.epoch[key]], cont)

\* flushKey(key) when the key has a buffer: delete it from the map, clear its
\* timer, hand its messages to processMessages.  (Every buffer is created with
\* one message, so the empty-buffer return is kept only for fidelity.)
flushKey(S, key, cause, cont) ==
  LET b   == S.buffers[key]
      buf == S.heap[b]
      S1  == [S EXCEPT !.buffers[key] = NoBuf,
                       !.order = Remove(@, key),
                       !.heap = [x \in (DOMAIN S.heap) \ {b} |-> S.heap[x]],
                       !.epoch[key] = {}]
  IN  IF buf.messages = <<>> THEN S1
      ELSE processMessages(S1, buf.messages,
             [key |-> key, cause |-> cause, openedAt |-> buf.openedAt,
              via |-> buf.via, epoch |-> S.epoch[key]], cont)

\* this.buffers.set(key, {messages: [message], timer: null}); resetTimer(...)
\* A buffer object is identified by the id of the message that opened it.  A
\* buffer already stored under the key is replaced in the map but stays in the
\* heap: its timer has not been cleared and still holds it.
\* via (history): "idle" when opened by an enqueue that found no buffer while no
\* buffer-full enqueue of the key was suspended, "racing" when one was, "full"
\* when opened by the resumed buffer-full enqueue.
openBuffer(S, m, via) ==
  LET b  == m.id
      S1 == [S EXCEPT
               !.heap = @ @@ (b :> [key |-> m.chatId, messages |-> <<m>>, timer |-> NoTimer,
                                    openedAt |-> now, via |-> via]),
               !.buffers[m.chatId] = b,
               !.order = IF m.chatId \in Range(@) THEN @ ELSE Append(@, m.chatId)]
  IN  resetTimer(S1, b)

\* via (history): "direct" when the key had no buffer, "afterflush" when the event
\* is processed by the enqueue resumed after the flush of the key's buffer.
ImmediateInfo(m, via) ==
  [key |-> m.chatId, cause |-> "immediate", openedAt |-> now, via |-> via, epoch |-> {m.id}]

\* Mutant of enqueue: the buffer-full test is off by one (> for >=).
enqueueFullOffByOne(S, m) ==
  LET key      == m.chatId
      existing == S.buffers[key]
  IN  IF ~m.debounce THEN
        IF existing # NoBuf
          THEN flushKey(S, key, "pre-immediate", [kind |-> "immediate", msg |-> m, rest |-> <<>>])
          ELSE processMessages(S, <<m>>, ImmediateInfo(m, "direct"), EndCont)
      ELSE
        LET E == [S EXCEPT !.epoch[key] = @ \cup {m.id}]
        IN  IF existing # NoBuf THEN
              IF Len(S.heap[existing].messages) > maxBufferSize
                THEN [flushKey(S, key, "full", [kind |-> "full", msg |-> m, rest |-> <<>>])
                        EXCEPT !.epoch[key] = {m.id}]
                ELSE resetTimer([E EXCEPT !.heap[existing].messages = Append(@, m)], existing)
            ELSE openBuffer(E, m, IF FullSuspended(S.inflight, key) THEN "racing" ELSE "idle")

\* Mutant of enqueue: no buffer-full test, every debounced event is pushed.
enqueueNeverFull(S, m) ==
  LET key      == m.chatId
      existing == S.buffers[key]
  IN  IF ~m.debounce THEN
        IF existing # NoBuf
          THEN flushKey(S, key, "pre-immediate", [kind |-> "immediate", msg |-> m, rest |-> <<>>])
          ELSE processMessages(S, <<m>>, ImmediateInfo(m, "direct"), EndCont)
      ELSE
        LET E == [S EXCEPT !.epoch[key] = @ \cup {m.id}]
        IN  IF existing # NoBuf
              THEN resetTimer([E EXCEPT !.heap[existing].messages = Append(@, m)], existing)
              ELSE openBuffer(E, m, IF FullSuspended(S.inflight, key) THEN "racing" ELSE "idle")

\* enqueue(message), up to its first await of a pending handler (or its end).
enqueue(S, m) ==
  LET key      == m.chatId
      existing == S.buffers[key]
  IN  IF ~m.debounce THEN
        IF existing # NoBuf
          THEN flushKey(S, key, "pre-immediate", [kind |-> "immediate", msg |-> m, rest |-> <<>>])
          ELSE processMessages(S, <<m>>, ImmediateInfo(m, "direct"), EndCont)
      ELSE
        LET E == [S EXCEPT !.epoch[key] = @ \cup {m.id}]
        IN  IF existing # NoBuf THEN
              IF Len(S.heap[existing].messages) >= maxBufferSize
                THEN [flushKey(S, key, "full", [kind |-> "full", msg |-> m, rest |-> <<>>])
                        EXCEPT !.epoch[key] = {m.id}]
                ELSE resetTimer([E EXCEPT !.heap[existing].messages = Append(@, m)], existing)
            ELSE openBuffer(E, m, IF FullSuspended(S.inflight, key) THEN "racing" ELSE "idle")

\* flushAll's loop: for (const key of keys) await this.flushKey(key).  A key
\* whose buffer is gone by now returns from flushKey at once and the loop goes
\* on; the first key that still has a buffer suspends the loop on its handler.
RECURSIVE flushAllLoop(_, _)
flushAllLoop(S, keys) ==
  IF keys = <<>> THEN [S EXCEPT !.fa = [st |-> "done", snapMsgs |-> {}, snapKeys |-> {}, touched |-> {}]]
  ELSE IF S.buffers[Head(keys)] = NoBuf THEN flushAllLoop(S, Tail(keys))
  ELSE flushKey(S, Head(keys), "flushAll",
                [kind |-> "flushAll", msg |-> NoMsg, rest |-> Tail(keys)])

\* Mutant of processMessagesSettled: no catch, the handler's error is rethrown
\* to the awaiting code and onError is not called.
processMessagesRethrows(S, h, outcome) ==
  [S EXCEPT
     !.inflight = @ \ {h},
     !.thrown = IF outcome = "error" THEN @ + 1 ELSE @]

\* processMessages after its await: try { await onFlush } catch { onError?.(error, sorted) }.
\* The catch swallows the error, so nothing is rethrown to the awaiting code.
processMessagesSettled(S, h, outcome) ==
  [S EXCEPT
     !.inflight = @ \ {h},
     !.errors = IF outcome = "error" THEN Ids(h.batch) ELSE {}]

\* Mutant of resume: the not-debounced enqueue returns after the flush of the
\* key's buffer without processing its own event.
resumeDropsImmediate(S, cont) ==
  CASE cont.kind = "full"      -> openBuffer(S, cont.msg, "full")
    [] cont.kind = "flushAll"  -> flushAllLoop(S, cont.rest)
    [] OTHER                   -> S

\* The code that was awaiting the handler, from the await to its next await.
resume(S, cont) ==
  CASE cont.kind = "immediate" -> processMessages(S, <<cont.msg>>, ImmediateInfo(cont.msg, "afterflush"), EndCont)
    [] cont.kind = "full"      -> openBuffer(S, cont.msg, "full")
    [] cont.kind = "flushAll"  -> flushAllLoop(S, cont.rest)
    [] OTHER                   -> S

\* ------------------------------------------------------ debouncer: actions
DebStart(c) ==
  /\ config = c
  /\ maxDebounceMs = CtorMaxDebounceMs(config)
  /\ maxBufferSize = CtorMaxBufferSize(config)
  /\ now = 0
  /\ nEnq = 0
  /\ heap = <<>>
  /\ buffers = [k \in Keys |-> NoBuf]
  /\ order = <<>>
  /\ inflight = {}
  /\ handed = [i \in 1..MaxMsgs |-> 0]
  /\ failed = {}
  /\ errors = {}
  /\ thrown = 0
  /\ fa = [st |-> "idle", snapMsgs |-> {}, snapKeys |-> {}, touched |-> {}]
  /\ epoch = [k \in Keys |-> {}]

DebInit == \E c \in Configs : DebStart(c)

\* The message object of the next enqueue call: the chat, the event's
\* timestamp and the answer of the shouldDebounce predicate are the inputs;
\* debounce is enqueue's local shouldDebounce.
NewMsg(k, t, pred) ==
  [id |-> nEnq + 1, chatId |-> k, timestamp |-> t,
   debounce |-> (config.debounceMs > 0 /\ pred)]

\* A call enqueue(message).
EnqueueCall(k, t, pred) ==
  /\ nEnq < MaxMsgs
  /\ t >= 0
  /\ nEnq' = nEnq + 1
  /\ Commit(enqueue([Cur EXCEPT !.fa.touched = IF fa.st = "running" THEN @ \cup {k} ELSE @],
                     NewMsg(k, t, pred)))
  /\ UNCHANGED <<config, maxDebounceMs, maxBufferSize, now>>

Enqueue == \E k \in Keys, t \in (now - MaxLag)..now, pred \in BOOLEAN : EnqueueCall(k, t, pred)

\* The timer armed for buffer b fires: its callback is flushKey(key) for the
\* key b was armed for, which flushes whatever buffer the map holds for it.
TimerFires(b) ==
  LET key == heap[b].key
      S0  == [Cur EXCEPT !.heap[b].timer = NoTimer]
  IN  /\ heap[b].timer # NoTimer
      /\ heap[b].timer <= now
      /\ Commit(IF buffers[key] = NoBuf THEN S0
                ELSE flushKey(S0, key, "timer", [kind |-> "timer", msg |-> NoMsg, rest |-> <<>>]))
      /\ UNCHANGED <<config, maxDebounceMs, maxBufferSize, now, nEnq>>

TimerFire == \E b \in DOMAIN heap : TimerFires(b)

\* A pending onFlush promise settles (resolves or rejects; a handler that
\* throws synchronously is the same with no step in between).
Settles(h, outcome) ==
  LET S0 == [Cur EXCEPT !.failed = IF outcome = "error" THEN Ids(h.batch) ELSE {}]
  IN  /\ h \in inflight
      /\ Commit(resume(processMessagesSettled(S0, h, outcome), h.cont))
      /\ UNCHANGED <<config, maxDebounceMs, maxBufferSize, now, nEnq>>

Settle == \E h \in inflight, outcome \in {"ok", "error"} : Settles(h, outcome)

\* A call flushAll(): snapshot the keys, start the loop.
FlushAll ==
  /\ fa.st = "idle"
  /\ LET inMap == { buffers[k] : k \in Keys } \ {NoBuf}
         S0 == [Cur EXCEPT !.fa = [st |-> "running",
                                   snapMsgs |-> UNION { Ids(heap[b].messages) : b \in inMap },
                                   snapKeys |-> Range(order), touched |-> {}]]
     IN  Commit(flushAllLoop(S0, order))
  /\ UNCHANGED <<config, maxDebounceMs, maxBufferSize, now, nEnq>>

\* Time passes, unless a timer is due.
Tick ==
  /\ now < MaxTime
  /\ \A b \in DOMAIN heap : heap[b].timer = NoTimer \/ heap[b].timer > now
  /\ now' = now + 1
  /\ failed' = {}
  /\ errors' = {}
  /\ UNCHANGED <<config, maxDebounceMs, maxBufferSize, nEnq, heap, buffers, order,
                 inflight, handed, thrown, fa, epoch>>

\* ------------------------------------------------------- deal service: state
\* The verification window; the value is the "5 minutes" of acceptDeal's comment.
DEAL_VERIFICATION_WINDOW_SECONDS == 300

MaxDealTicks == 2              \* the deal clock advances at most this many windows

DealIds  == {1, 3}             \* ids the service is called with: deal 1, and an id with no row
OtherDeal == 2                 \* a second deal, one that no call names
NullTime == -1                 \* a NULL integer column
NullText == ""                 \* a NULL text column
Statuses == {"proposed", "accepted", "payment_claimed", "verified", "completed",
             "declined", "expired"}
InlineIds == {"msg"}

VARIABLES
  dealNow,       \* unix time in seconds: Math.floor(Date.now() / 1000), unixepoch()
  deals,         \* the deals table: id -> row, for the ids that have a row
  ret            \* the last call on the deal service and what it returned

dealVars == <<dealNow, deals, ret>>

\* A row as the external proposal flow inserts it. That flow is not part of
\* this service; its deadline here is half a verification window.
ProposedRow(d) ==
  [id |-> d, status |-> "proposed", created_at |-> 0,
   expires_at |-> DEAL_VERIFICATION_WINDOW_SECONDS \div 2,
   inline_message_id |-> NullText, payment_claimed_at |-> NullTime,
   user_payment_verified_at |-> NullTime, completed_at |-> NullTime,
   agent_sent_at |-> NullTime,
   user_telegram_id |-> d, user_username |-> "bob", chat_id |-> "chat",
   user_gives_type |-> "ton", user_gives_ton_amount |-> 2,
   user_gives_gift_slug |-> NullText, user_gives_value_ton |-> 2,
   agent_gives_type |-> "gift", agent_gives_ton_amount |-> NullTime,
   agent_gives_gift_slug |-> "slug", agent_gives_value_ton |-> 3,
   profit_ton |-> 1]

\* db.prepare("UPDATE deals SET ... WHERE id = ? AND <where>").run(...): one
\* atomic statement on the row of that id, if there is one and it satisfies
\* the condition; changes is the number of rows it changed.
Update(db, d, where, newRow) ==
  IF d \in DOMAIN db /\ where
    THEN [db |-> [db EXCEPT ![d] = newRow], changes |-> 1]
    ELSE [db |-> db, changes |-> 0]

\* updateDealStatus(db, dealId, status): UPDATE deals SET status = ? WHERE id = ?
updateDealStatus(db, d, status) ==
  Update(db, d, TRUE, [db[d] EXCEPT !.status = status])

\* Mutant of acceptDeal: the window is added to the old deadline.
acceptDealExtends(db, d) ==
  Update(db, d, db[d].status = "proposed",
         [db[d] EXCEPT !.status = "accepted",
                       !.expires_at = @ + DEAL_VERIFICATION_WINDOW_SECONDS])

\* acceptDeal: SET status = 'accepted', expires_at = newExpiry WHERE id = ? AND status = 'proposed'
acceptDeal(db, d) ==
  LET newExpiry == dealNow + DEAL_VERIFICATION_WINDOW_SECONDS
  IN  Update(db, d, db[d].status = "proposed",
             [db[d] EXCEPT !.status = "accepted", !.expires_at = newExpiry])

\* Mutant of declineDeal: an accepted deal can be declined too.
declineDealAlsoAccepted(db, d) ==
  Update(db, d, db[d].status \in {"proposed", "accepted"},
         [db[d] EXCEPT !.status = "declined"])

\* Mutant of declineDeal: the update is not conditional on the status.
declineDealAnyStatus(db, d) ==
  Update(db, d, TRUE, [db[d] EXCEPT !.status = "declined"])

\* declineDeal: SET status = 'declined' WHERE id = ? AND status = 'proposed'
declineDeal(db, d) ==
  Update(db, d, db[d].status = "proposed", [db[d] EXCEPT !.status = "declined"])

\* Mutant of claimPayment: a payment can be claimed until the deadline only.
claimPaymentBeforeDeadline(db, d) ==
  Update(db, d, db[d].status = "accepted" /\ dealNow <= db[d].expires_at,
         [db[d] EXCEPT !.status = "payment_claimed", !.payment_claimed_at = dealNow])

\* Mutant of claimPayment: the claim also marks the payment as verified.
claimPaymentVerifies(db, d) ==
  Update(db, d, db[d].status = "accepted",
         [db[d] EXCEPT !.status = "verified", !.payment_claimed_at = dealNow,
                       !.user_payment_verified_at = dealNow])

\* Mutant of claimPayment: the update is not conditional on the status.
claimPaymentUnguarded(db, d) ==
  Update(db, d, TRUE,
         [db[d] EXCEPT !.status = "payment_claimed", !.payment_claimed_at = dealNow])

\* claimPayment: SET status = 'payment_claimed', payment_claimed_at = unixepoch()
\*               WHERE id = ? AND status = 'accepted'
claimPayment(db, d) ==
  Update(db, d, db[d].status = "accepted",
         [db[d] EXCEPT !.status = "payment_claimed", !.payment_claimed_at = dealNow])

\* Mutant of setInlineMessageId: the update has no WHERE, it writes every row.
setInlineMessageIdEveryDeal(db, d, inlineMessageId) ==
  [db |-> [x \in DOMAIN db |-> [db[x] EXCEPT !.inline_message_id = inlineMessageId]],
   changes |-> Cardinality(DOMAIN db)]

\* setInlineMessageId: UPDATE deals SET inline_message_id = ? WHERE id = ?
setInlineMessageId(db, d, inlineMessageId) ==
  Update(db, d, TRUE, [db[d] EXCEPT !.inline_message_id = inlineMessageId])

\* Mutant of isDealExpired: a deal is expired at its deadline already.
isDealExpiredAtDeadline(deal) == dealNow >= deal.expires_at

\* isDealExpired(deal): now > deal.expiresAt
isDealExpired(deal) == dealNow > deal.expires_at

\* Mutant of expireDeal: the update is not conditional on the status.
expireDealAnyStatus(db, d) ==
  Update(db, d, TRUE, [db[d] EXCEPT !.status = "expired"])

\* expireDeal: SET status = 'expired' WHERE id = ? AND status IN ('proposed', 'accepted')
expireDeal(db, d) ==
  Update(db, d, db[d].status \in {"proposed", "accepted"},
         [db[d] EXCEPT !.status = "expired"])

\* ----------------------------------------------------- deal service: actions
DealInit ==
  /\ dealNow = 0
  /\ \E s \in Statuses :
       deals = [d \in {1, OtherDeal} |->
                  IF d = OtherDeal THEN [ProposedRow(d) EXCEPT !.status = s]
                                   ELSE ProposedRow(d)]
  /\ ret = [op |-> "none", id |-> 0, value |-> FALSE]

\* Mutant of Returned: the call reports success whatever the statement changed.
ReturnedTrue(op, d, r) ==
  /\ deals' = r.db
  /\ ret' = [op |-> op, id |-> d, value |-> TRUE]
  /\ UNCHANGED dealNow

\* A call of a transition operation: the statement runs, return r.changes === 1.
Returned(op, d, r) ==
  /\ deals' = r.db
  /\ ret' = [op |-> op, id |-> d, value |-> (r.changes = 1)]
  /\ UNCHANGED dealNow

AcceptDealCall(d)   == Returned("acceptDeal", d, acceptDeal(deals, d))
DeclineDealCall(d)  == Returned("declineDeal", d, declineDeal(deals, d))
ClaimPaymentCall(d) == Returned("claimPayment", d, claimPayment(deals, d))
ExpireDealCall(d)   == Returned("expireDeal", d, expireDeal(deals, d))

\* The two operations that return nothing.
UpdateDealStatusCall(d, status) ==
  /\ deals' = updateDealStatus(deals, d, status).db
  /\ ret' = [op |-> "updateDealStatus", id |-> d, value |-> FALSE]
  /\ UNCHANGED dealNow

SetInlineMessageIdCall(d, mid) ==
  /\ deals' = setInlineMessageId(deals, d, mid).db
  /\ ret' = [op |-> "setInlineMessageId", id |-> d, value |-> FALSE]
  /\ UNCHANGED dealNow

\* isDealExpired on the deal as getDeal reads it.
IsDealExpiredCall(d) ==
  /\ d \in DOMAIN deals
  /\ ret' = [op |-> "isDealExpired", id |-> d, value |-> isDealExpired(deals[d])]
  /\ UNCHANGED <<dealNow, deals>>

AcceptDeal         == \E d \in DealIds : AcceptDealCall(d)
DeclineDeal        == \E d \in DealIds : DeclineDealCall(d)
ClaimPayment       == \E d \in DealIds : ClaimPaymentCall(d)
ExpireDeal         == \E d \in DealIds : ExpireDealCall(d)
UpdateDealStatus   == \E d \in DealIds, status \in Statuses : UpdateDealStatusCall(d, status)
SetInlineMessageId == \E d \in DealIds, mid \in InlineIds : SetInlineMessageIdCall(d, mid)
IsDealExpired      == \E d \in DealIds : IsDealExpiredCall(d)

\* The clock advances by one verification window.
DealTick ==
  /\ dealNow + DEAL_VERIFICATION_WINDOW_SECONDS <= MaxDealTicks * DEAL_VERIFICATION_WINDOW_SECONDS
  /\ dealNow' = dealNow + DEAL_VERIFICATION_WINDOW_SECONDS
  /\ UNCHANGED <<deals, ret>>

\* ----------------------------------------------------- user statistics: state
MaxStatsCalls == 3             \* number of updateUserStats calls explored

StatsUsers   == {1, 2}         \* telegram ids
StatsCallers == {1, 2}         \* connections to the database that call updateUserStats
NoAmount     == -1             \* deal.userGivesTonAmount === undefined
UserNames    == {NullText, "bob"}

\* The fields of a DealContext that updateUserStats reads.
StatsDeals ==
  { [dealId |-> 1, userGivesType |-> "ton", userGivesTonAmount |-> 2,
     agentGivesType |-> "gift", agentGivesTonAmount |-> NoAmount],
    [dealId |-> 2, userGivesType |-> "gift", userGivesTonAmount |-> NoAmount,
     agentGivesType |-> "ton", agentGivesTonAmount |-> 3],
    [dealId |-> 3, userGivesType |-> "ton", userGivesTonAmount |-> NoAmount,
     agentGivesType |-> "ton", agentGivesTonAmount |-> 1] }

NoStatsDeal ==
  [dealId |-> 0, userGivesType |-> "", userGivesTonAmount |-> NoAmount,
   agentGivesType |-> "", agentGivesTonAmount |-> NoAmount]
NoStatsCall == [userId |-> 0, deal |-> NoStatsDeal]

VARIABLES
  stats,         \* the user_trade_stats table: telegram_id -> row, for the ids that have a row
  pendingStats,  \* per connection: the updateUserStats call that has run its first
                 \* statement and not yet its second
  nStatsCalls,   \* number of updateUserStats calls made
  accounted,     \* ids of the deals for which an updateUserStats call has returned
  begun          \* per user: completed=true calls whose first statement has run

statsVars == <<stats, pendingStats, nStatsCalls, accounted, begun>>

\* The row the INSERT of the upsert creates: the columns it does not name
\* take the defaults of the table, zero for the counters.
NewStatsRow(username) ==
  [username |-> username, total_deals |-> 1, last_deal_at |-> dealNow,
   completed_deals |-> 0, total_ton_sent |-> 0, total_ton_received |-> 0,
   total_gifts_sent |-> 0, total_gifts_received |-> 0]

\* INSERT INTO user_trade_stats ... VALUES (?, ?, 1, unixepoch())
\* ON CONFLICT(telegram_id) DO UPDATE SET username = COALESCE(?, username),
\*   total_deals = total_deals + 1, last_deal_at = unixepoch()
upsertUserStats(st, userId, username) ==
  [u \in DOMAIN st \cup {userId} |->
     IF u # userId THEN st[u]
     ELSE IF u \in DOMAIN st
       THEN [st[u] EXCEPT !.username = IF username # NullText THEN username ELSE @,
                          !.total_deals = @ + 1,
                          !.last_deal_at = dealNow]
       ELSE NewStatsRow(username)]

\* x || 0 for an amount that may be undefined
OrZero(x) == IF x = NoAmount THEN 0 ELSE x

tonSent(deal)       == IF deal.userGivesType = "ton" THEN OrZero(deal.userGivesTonAmount) ELSE 0
tonReceived(deal)   == IF deal.agentGivesType = "ton" THEN OrZero(deal.agentGivesTonAmount) ELSE 0
giftsSent(deal)     == IF deal.userGivesType = "gift" THEN 1 ELSE 0
giftsReceived(deal) == IF deal.agentGivesType = "gift" THEN 1 ELSE 0

\* Mutant of updateCompletedStats: what was sent is booked as received.
updateCompletedStatsSwapped(st, userId, deal) ==
  IF userId \in DOMAIN st
    THEN [st EXCEPT ![userId] =
            [@ EXCEPT !.completed_deals = @ + 1,
                      !.total_ton_sent = @ + tonReceived(deal),
                      !.total_ton_received = @ + tonSent(deal),
                      !.total_gifts_sent = @ + giftsSent(deal),
                      !.total_gifts_received = @ + giftsReceived(deal)]]
    ELSE st

\* UPDATE user_trade_stats SET completed_deals = completed_deals + 1,
\*   total_ton_sent = total_ton_sent + ?, ... WHERE telegram_id = ?
updateCompletedStats(st, userId, deal) ==
  IF userId \in DOMAIN st
    THEN [st EXCEPT ![userId] =
            [@ EXCEPT !.completed_deals = @ + 1,
                      !.total_ton_sent = @ + tonSent(deal),
                      !.total_ton_received = @ + tonReceived(deal),
                      !.total_gifts_sent = @ + giftsSent(deal),
                      !.total_gifts_received = @ + giftsReceived(deal)]]
    ELSE st

\* --------------------------------------------------- user statistics: actions
\* Each of the two statements of updateUserStats is a transaction of its own
\* (there is no db.transaction around them): another connection can read or
\* write between them, and the second can fail after the first has committed.
StatsInit ==
  /\ stats = [u \in {} |-> NewStatsRow(NullText)]
  /\ pendingStats = [c \in StatsCallers |-> NoStatsCall]
  /\ nStatsCalls = 0
  /\ accounted = {}
  /\ begun = [u \in StatsUsers |-> 0]

\* updateUserStats(db, userId, username, deal, completed) up to the end of the
\* upsert; with completed = false the call returns here.
UpdateUserStatsCall(c, userId, username, deal, completed) ==
  /\ nStatsCalls < MaxStatsCalls
  /\ pendingStats[c] = NoStatsCall
  /\ nStatsCalls' = nStatsCalls + 1
  /\ stats' = upsertUserStats(stats, userId, username)
  /\ IF completed
       THEN /\ pendingStats' = [pendingStats EXCEPT ![c] = [userId |-> userId, deal |-> deal]]
            /\ begun' = [begun EXCEPT ![userId] = @ + 1]
            /\ UNCHANGED accounted
       ELSE /\ accounted' = accounted \cup {deal.dealId}
            /\ UNCHANGED <<pendingStats, begun>>

\* if (completed) { ... UPDATE user_trade_stats ... }: the second statement,
\* and the call returns.
UpdateUserStatsCompletes(c) ==
  /\ pendingStats[c] # NoStatsCall
  /\ stats' = updateCompletedStats(stats, pendingStats[c].userId, pendingStats[c].deal)
  /\ pendingStats' = [pendingStats EXCEPT ![c] = NoStatsCall]
  /\ accounted' = accounted \cup {pendingStats[c].deal.dealId}
  /\ UNCHANGED <<nStatsCalls, begun>>

\* The second statement throws (the database is busy or full), or the process
\* stops before it: the call ends with the upsert committed.
UpdateUserStatsFails(c) ==
  /\ pendingStats[c] # NoStatsCall
  /\ pendingStats' = [pendingStats EXCEPT ![c] = NoStatsCall]
  /\ UNCHANGED <<stats, nStatsCalls, accounted, begun>>

UpdateUserStats ==
  \E c \in StatsCallers, userId \in StatsUsers, username \in UserNames,
     deal \in StatsDeals, completed \in BOOLEAN :
    UpdateUserStatsCall(c, userId, username, deal, completed)
UpdateUserStatsSecond == \E c \in StatsCallers : UpdateUserStatsCompletes(c)
UpdateUserStatsFailure == \E c \in StatsCallers : UpdateUserStatsFails(c)

\* --------------------------------------------------------- work queues: state
PageLimit == 10                \* LIMIT 10 of both queue queries

QueueIds  == 1..(PageLimit + 1)     \* one deal more than a page holds
LateIds   == {1, 2}                 \* deals that claim payment while the workers run
NullClaim == PageLimit + 1          \* a deal moved to 'payment_claimed' without a claim time

VARIABLES
  page           \* the last page a queue query returned: [queue, ids]

queueVars == <<page>>

NoPage == [queue |-> "none", ids |-> <<>>]

AwaitingVerification(db) == { d \in DOMAIN db : db[d].status = "payment_claimed" }
AwaitingExecution(db) ==
  { d \in DOMAIN db : db[d].status = "verified" /\ db[d].agent_sent_at = NullTime }

\* ORDER BY column ASC LIMIT n over the rows Q of db: the n rows of least
\* column value (NULL sorts first: NullTime is below every time).  Rows of
\* equal value may come in any order, so any of them may be the ones cut off
\* by the limit ...
PageSets(db, Q, column, n) ==
  IF Cardinality(Q) <= n
    THEN { Q }
    ELSE { P \in SUBSET Q :
             /\ Cardinality(P) = n
             /\ \A x \in P, y \in Q \ P : db[x][column] <= db[y][column] }

\* ... and the page lists them by ascending column value (rows of equal value
\* by id).
SortedIds(db, P, column) ==
  SortSeq(SelectSeq([i \in 1..(PageLimit + 1) |-> i], LAMBDA d : d \in P),
          LAMBDA a, b : \/ db[a][column] < db[b][column]
                        \/ db[a][column] = db[b][column] /\ a < b)

OrderLimit(db, Q, column, n) ==
  { SortedIds(db, P, column) : P \in PageSets(db, Q, column, n) }

\* Mutant of getDealsAwaitingVerification: ordered by creation time.
getDealsAwaitingVerificationByCreation(db) ==
  OrderLimit(db, AwaitingVerification(db), "created_at", PageLimit)

\* getDealsAwaitingVerification: WHERE status = 'payment_claimed'
\* ORDER BY payment_claimed_at ASC LIMIT 10; the pages it can return.
getDealsAwaitingVerification(db) ==
  OrderLimit(db, AwaitingVerification(db), "payment_claimed_at", PageLimit)

\* Mutant of getDealsAwaitingExecution: executed deals are listed as well.
getDealsAwaitingExecutionWithSent(db) ==
  OrderLimit(db, { d \in DOMAIN db : db[d].status = "verified" },
             "user_payment_verified_at", PageLimit)

\* getDealsAwaitingExecution: WHERE status = 'verified' AND agent_sent_at IS NULL
\* ORDER BY user_payment_verified_at ASC LIMIT 10; the pages it can return.
getDealsAwaitingExecution(db) ==
  OrderLimit(db, AwaitingExecution(db), "user_payment_verified_at", PageLimit)

\* The verification worker's write for a deal it was handed (the worker is
\* not part of the deal service): the deal becomes 'verified' as of now.
markVerified(db, ids) ==
  [d \in DOMAIN db |->
     IF d \in ids /\ db[d].status = "payment_claimed"
       THEN [db[d] EXCEPT !.status = "verified", !.user_payment_verified_at = dealNow]
       ELSE db[d]]

\* The execution worker's write for a deal it was handed: the agent's side is
\* sent, as of now.
markSent(db, ids) ==
  [d \in DOMAIN db |->
     IF d \in ids /\ db[d].status = "verified"
       THEN [db[d] EXCEPT !.agent_sent_at = dealNow]
       ELSE db[d]]

\* ------------------------------------------------------- work queues: actions
\* Ten deals wait for verification: nine claimed at time 0 and one moved to
\* 'payment_claimed' by updateDealStatus, without a claim time.  The late
\* deals are accepted and claim payment later.
QueueInit ==
  /\ dealNow = 0
  /\ deals = [d \in QueueIds |->
                IF d \in LateIds
                  THEN [ProposedRow(d) EXCEPT !.status = "accepted",
                          !.expires_at = DEAL_VERIFICATION_WINDOW_SECONDS]
                ELSE IF d = NullClaim
                  THEN [ProposedRow(d) EXCEPT !.status = "payment_claimed",
                          !.expires_at = DEAL_VERIFICATION_WINDOW_SECONDS]
                  ELSE [ProposedRow(d) EXCEPT !.status = "payment_claimed",
                          !.expires_at = DEAL_VERIFICATION_WINDOW_SECONDS,
                          !.payment_claimed_at = 0]]
  /\ ret = [op |-> "none", id |-> 0, value |-> FALSE]
  /\ page = NoPage

LateClaimPayment == \E d \in LateIds : ClaimPaymentCall(d) /\ UNCHANGED page

GetDealsAwaitingVerificationCall ==
  /\ UNCHANGED dealVars
  /\ \E ids \in getDealsAwaitingVerification(deals) :
       page' = [queue |-> "verification", ids |-> ids]

GetDealsAwaitingExecutionCall ==
  /\ UNCHANGED dealVars
  /\ \E ids \in getDealsAwaitingExecution(deals) :
       page' = [queue |-> "execution", ids |-> ids]

\* A round of the verification worker: it polls the queue and moves every
\* deal it is handed out of 'payment_claimed'.
VerifierRound ==
  /\ AwaitingVerification(deals) # {}
  /\ UNCHANGED <<dealNow, ret>>
  /\ \E ids \in getDealsAwaitingVerification(deals) :
       /\ page' = [queue |-> "verification", ids |-> ids]
       /\ deals' = markVerified(deals, Range(ids))

\* A round of the execution worker: it polls the queue and sends what it owes
\* for every deal it is handed.
ExecutorRound ==
  /\ AwaitingExecution(deals) # {}
  /\ UNCHANGED <<dealNow, ret>>
  /\ \E ids \in getDealsAwaitingExecution(deals) :
       /\ page' = [queue |-> "execution", ids |-> ids]
       /\ deals' = markSent(deals, Range(ids))

QueueTick == DealTick /\ UNCHANGED page

\* ------------------------------------------------------- deal service: reads
\* getDeal: SELECT ... FROM deals WHERE id = ?; the row found (as its id), or
\* no row (null).
getDeal(db, d) == IF d \in DOMAIN db THEN <<d>> ELSE <<>>

GetDealCall(d) ==
  /\ UNCHANGED dealVars
  /\ page' = [queue |-> "getDeal", ids |-> getDeal(deals, d)]

GetDeal == \E d \in DealIds : GetDealCall(d)

\* --------------------------------------------------------- transcript: state
MaxLines == 4                  \* lines a transcript file grows to

\* msg.toolCallId: a string (possibly empty), absent, or a value of another type.
StrId(str) == [type |-> "string", str |-> str]
NoId       == [type |-> "undefined", str |-> ""]
NumId      == [type |-> "number", str |-> ""]

\* Content blocks of an assistant message; id "" is a block without id.
ToolCall(id) == [type |-> "toolCall", id |-> id]
TextBlock    == [type |-> "text", id |-> ""]
Blocks(bs)   == [isArray |-> TRUE, blocks |-> bs]
TextContent  == [isArray |-> FALSE, blocks |-> <<>>]

Assistant(content) == [role |-> "assistant", content |-> content, toolCallId |-> NoId]
ToolResult(id)     == [role |-> "toolResult", content |-> TextContent, toolCallId |-> id]
User               == [role |-> "user", content |-> TextContent, toolCallId |-> NoId]
Other              == [role |-> "system", content |-> TextContent, toolCallId |-> NoId]

Messages ==
  { Assistant(TextContent),
    Assistant(Blocks(<<TextBlock, ToolCall("A")>>)),
    Assistant(Blocks(<<ToolCall("B")>>)),
    Assistant(Blocks(<<ToolCall("A"), ToolCall("B")>>)),
    Assistant(Blocks(<<ToolCall("")>>)),
    ToolResult(StrId("A")), ToolResult(StrId("B")), ToolResult(StrId("")),
    ToolResult(NoId), ToolResult(NumId),
    User, Other }

\* A line of the file: JSON.stringify(message), or text that JSON.parse rejects.
JSONstringify(msg) == [json |-> TRUE, value |-> msg]
CorruptLine        == [json |-> FALSE, value |-> Other]

NoFile == [exists |-> FALSE, lines |-> <<>>]

NoLoad == [called |-> FALSE, error |-> FALSE, messages |-> <<>>, corruptCount |-> 0,
           removedCount |-> 0, warnings |-> 0]

VARIABLES
  transcript,    \* the session's file: whether it exists, and its lines
  loaded,        \* what the last step returned and counted, if it was readTranscript
  raised         \* whether the last call on the transcript or the failing store threw to its caller

ioVars == <<transcript, loaded, raised>>

\* --------------------------------------------------------- transcript: sanitizer
extractToolCallIds(msg) ==
  IF msg.role = "assistant" /\ msg.content.isArray
    THEN { b.id : b \in { x \in Range(msg.content.blocks) :
                            x.type = "toolCall" /\ x.id # "" } }
    ELSE {}

SanitizeStart ==
  [sanitized |-> <<>>, pendingToolCallIds |-> {}, removedCount |-> 0, warnings |-> 0]

\* Mutant of SanitizeIteration: an assistant turn adds its identifiers to the
\* pending ones, and a user turn leaves them pending.
SanitizeIterationUnions(S, msg) ==
  IF msg.role = "assistant" THEN
    [S EXCEPT !.pendingToolCallIds = @ \cup extractToolCallIds(msg),
              !.sanitized = Append(@, msg)]
  ELSE IF msg.role = "toolResult" THEN
    IF msg.toolCallId.type = "string" /\ msg.toolCallId.str \in S.pendingToolCallIds
      THEN [S EXCEPT !.pendingToolCallIds = @ \ {msg.toolCallId.str},
                     !.sanitized = Append(@, msg)]
      ELSE [S EXCEPT !.removedCount = @ + 1]
  ELSE [S EXCEPT !.sanitized = Append(@, msg)]

\* Mutant of SanitizeIteration: the first result kept resolves the whole turn.
SanitizeIterationOneResult(S, msg) ==
  IF msg.role = "assistant" THEN
    [S EXCEPT !.pendingToolCallIds = extractToolCallIds(msg),
              !.sanitized = Append(@, msg)]
  ELSE IF msg.role = "toolResult" THEN
    IF msg.toolCallId.type = "string" /\ msg.toolCallId.str \in S.pendingToolCallIds
      THEN [S EXCEPT !.pendingToolCallIds = {}, !.sanitized = Append(@, msg)]
      ELSE [S EXCEPT !.removedCount = @ + 1]
  ELSE IF msg.role = "user" THEN
    [S EXCEPT !.pendingToolCallIds = {}, !.sanitized = Append(@, msg)]
  ELSE [S EXCEPT !.sanitized = Append(@, msg)]

\* Mutant of SanitizeIteration: a tool result is kept whenever it names a call.
SanitizeIterationKeepsNamed(S, msg) ==
  IF msg.role = "assistant" THEN
    [S EXCEPT !.pendingToolCallIds = extractToolCallIds(msg),
              !.sanitized = Append(@, msg)]
  ELSE IF msg.role = "toolResult" THEN
    IF msg.toolCallId.type = "string" /\ msg.toolCallId.str # ""
      THEN [S EXCEPT !.pendingToolCallIds = @ \ {msg.toolCallId.str},
                     !.sanitized = Append(@, msg)]
      ELSE [S EXCEPT !.removedCount = @ + 1]
  ELSE IF msg.role = "user" THEN
    [S EXCEPT !.pendingToolCallIds = {}, !.sanitized = Append(@, msg)]
  ELSE [S EXCEPT !.sanitized = Append(@, msg)]

\* Mutant of SanitizeIteration: a user turn is dropped while calls are pending.
SanitizeIterationDropsUser(S, msg) ==
  IF msg.role = "assistant" THEN
    [S EXCEPT !.pendingToolCallIds = extractToolCallIds(msg),
              !.sanitized = Append(@, msg)]
  ELSE IF msg.role = "toolResult" THEN
    IF msg.toolCallId.type = "string" /\ msg.toolCallId.str \in S.pendingToolCallIds
      THEN [S EXCEPT !.pendingToolCallIds = @ \ {msg.toolCallId.str},
                     !.sanitized = Append(@, msg)]
      ELSE [S EXCEPT !.removedCount = @ + 1]
  ELSE IF msg.role = "user" THEN
    IF S.pendingToolCallIds # {}
      THEN [S EXCEPT !.pendingToolCallIds = {}, !.warnings = @ + 1]
      ELSE [S EXCEPT !.sanitized = Append(@, msg)]
  ELSE [S EXCEPT !.sanitized = Append(@, msg)]

\* Mutant of SanitizeIteration: only the first offending tool-result of a pass
\* is dropped, the later ones are kept.
SanitizeIterationDropsOnce(S, msg) ==
  IF msg.role = "assistant" THEN
    [S EXCEPT !.pendingToolCallIds = extractToolCallIds(msg),
              !.sanitized = Append(@, msg)]
  ELSE IF msg.role = "toolResult" THEN
    IF msg.toolCallId.type = "string" /\ msg.toolCallId.str \in S.pendingToolCallIds
      THEN [S EXCEPT !.pendingToolCallIds = @ \ {msg.toolCallId.str},
                     !.sanitized = Append(@, msg)]
      ELSE IF S.removedCount = 0
        THEN [S EXCEPT !.removedCount = @ + 1]
        ELSE [S EXCEPT !.sanitized = Append(@, msg)]
  ELSE IF msg.role = "user" THEN
    [S EXCEPT !.pendingToolCallIds = {}, !.sanitized = Append(@, msg)]
  ELSE [S EXCEPT !.sanitized = Append(@, msg)]

\* One iteration of the loop of sanitizeMessages, on the entry msg.  warnings
\* counts the log.warn calls about calls that were never resolved.
SanitizeIteration(S, msg) ==
  IF msg.role = "assistant" THEN
    LET newToolIds == extractToolCallIds(msg) IN
    [S EXCEPT !.warnings = IF S.pendingToolCallIds # {} /\ newToolIds # {}
                             THEN @ + 1 ELSE @,
              !.pendingToolCallIds = newToolIds,
              !.sanitized = Append(@, msg)]
  ELSE IF msg.role = "toolResult" THEN
    LET toolCallId == msg.toolCallId IN
    IF toolCallId.type # "string" \/ toolCallId.str = ""
      THEN [S EXCEPT !.removedCount = @ + 1]
    ELSE IF toolCallId.str \in S.pendingToolCallIds
      THEN [S EXCEPT !.pendingToolCallIds = @ \ {toolCallId.str},
                     !.sanitized = Append(@, msg)]
      ELSE [S EXCEPT !.removedCount = @ + 1]
  ELSE IF msg.role = "user" THEN
    IF S.pendingToolCallIds # {}
      THEN [S EXCEPT !.pendingToolCallIds = {}, !.warnings = @ + 1,
                     !.sanitized = Append(@, msg)]
      ELSE [S EXCEPT !.sanitized = Append(@, msg)]
  ELSE [S EXCEPT !.sanitized = Append(@, msg)]

\* The loop after its first n iterations.
RECURSIVE SanitizeTo(_, _)
SanitizeTo(messages, n) ==
  IF n = 0 THEN SanitizeStart
           ELSE SanitizeIteration(SanitizeTo(messages, n - 1), messages[n])

sanitizeMessages(messages) == SanitizeTo(messages, Len(messages))

\* --------------------------------------------------------- transcript: file
\* lines.map(JSON.parse, null for a line that throws).filter(Boolean)
ParsedLines(lines) == SelectSeq(lines, LAMBDA l : l.json)
ParsedMessages(lines) == [i \in 1..Len(ParsedLines(lines)) |-> ParsedLines(lines)[i].value]
CorruptCount(lines) == Len(lines) - Len(ParsedLines(lines))

\* What a call of readTranscript returns (messages) and logs: error is the
\* log.error of a read that threw.
Loaded(messages, corruptCount, S, error) ==
  [called |-> TRUE, error |-> error, messages |-> messages,
   corruptCount |-> corruptCount,
   removedCount |-> S.removedCount, warnings |-> S.warnings]

\* Mutant of readTranscript: the first corrupt line ends the pass.
readTranscriptStopsAtCorrupt(file, readFails) ==
  IF ~file.exists THEN Loaded(<<>>, 0, SanitizeStart, FALSE)
  ELSE IF readFails THEN Loaded(<<>>, 0, SanitizeStart, TRUE)
  ELSE IF CorruptCount(file.lines) > 0 THEN Loaded(<<>>, 1, SanitizeStart, FALSE)
    ELSE LET S == sanitizeMessages(ParsedMessages(file.lines))
         IN  Loaded(S.sanitized, 0, S, FALSE)

\* readTranscript: [] for a missing file and for a read that throws; else the
\* parsable lines, sanitized.
readTranscript(file, readFails) ==
  IF ~file.exists THEN Loaded(<<>>, 0, SanitizeStart, FALSE)
  ELSE IF readFails THEN Loaded(<<>>, 0, SanitizeStart, TRUE)
    ELSE LET S == sanitizeMessages(ParsedMessages(file.lines))
         IN  Loaded(S.sanitized, CorruptCount(file.lines), S, FALSE)

\* ------------------------------------------------------- transcript: actions
TranscriptInit ==
  /\ transcript = NoFile
  /\ loaded = NoLoad
  /\ raised = FALSE

\* appendToTranscript: mkdirSync of a missing sessions directory is outside
\* the try and may throw; a throw of appendFileSync is caught and logged.
AppendToTranscriptCall(msg, outcome) ==
  /\ outcome = "mkdirThrows" => ~transcript.exists
  /\ outcome = "ok" => Len(transcript.lines) < MaxLines
  /\ transcript' = IF outcome = "ok"
                     THEN [exists |-> TRUE,
                           lines |-> Append(transcript.lines, JSONstringify(msg))]
                     ELSE transcript
  /\ raised' = (outcome = "mkdirThrows")
  /\ loaded' = NoLoad

AppendToTranscript ==
  \E msg \in Messages, outcome \in {"ok", "appendThrows", "mkdirThrows"} :
    AppendToTranscriptCall(msg, outcome)

\* A write that was cut short leaves a line that does not parse.
TornWrite ==
  /\ Len(transcript.lines) < MaxLines
  /\ transcript' = [exists |-> TRUE, lines |-> Append(transcript.lines, CorruptLine)]
  /\ loaded' = NoLoad
  /\ raised' = FALSE

\* Mutant of ReadTranscriptCall: a read that throws is not caught.
ReadTranscriptCallNoCatch(readFails) ==
  /\ loaded' = readTranscript(transcript, readFails)
  /\ raised' = (transcript.exists /\ readFails)
  /\ UNCHANGED transcript

ReadTranscriptCall(readFails) ==
  /\ loaded' = readTranscript(transcript, readFails)
  /\ raised' = FALSE
  /\ UNCHANGED transcript

ReadTranscript == \E readFails \in BOOLEAN : ReadTranscriptCall(readFails)

\* ------------------------------------------------------- storage failures
StoreOps == {"getDeal", "acceptDeal", "declineDeal", "claimPayment", "expireDeal",
             "getDealsAwaitingVerification", "getDealsAwaitingExecution",
             "updateUserStats"}

\* A statement of the deal service throws (the database is locked, the disk
\* is full, ...): no operation of the service has a try, so the error reaches
\* the caller, and nothing is written or returned.
StoreThrowsCall(op, d) ==
  /\ ret' = [op |-> op, id |-> d, value |-> FALSE]
  /\ raised' = TRUE
  /\ UNCHANGED <<dealNow, deals, page, transcript, loaded>>

StoreThrows == \E op \in StoreOps, d \in DealIds : StoreThrowsCall(op, d)

AppendToTranscriptFails ==
  \E msg \in {User}, outcome \in {"appendThrows", "mkdirThrows"} :
    AppendToTranscriptCall(msg, outcome)

\* ---------------------------------------------------------- specifications
vars == <<debVars, dealVars, statsVars, queueVars, ioVars>>

notDebVars   == <<dealVars, statsVars, queueVars, ioVars>>
notDealVars  == <<debVars, statsVars, queueVars, ioVars>>
notStatsVars == <<debVars, deals, ret, queueVars, ioVars>>
notQueueVars == <<debVars, statsVars, ioVars>>
notIoVars    == <<debVars, dealVars, statsVars, queueVars>>

DebNext ==
  \/ Enqueue /\ UNCHANGED notDebVars
  \/ TimerFire /\ UNCHANGED notDebVars
  \/ Settle /\ UNCHANGED notDebVars
  \/ FlushAll /\ UNCHANGED notDebVars
  \/ Tick /\ UNCHANGED notDebVars

DealNext ==
  \/ AcceptDeal /\ UNCHANGED notDealVars
  \/ DeclineDeal /\ UNCHANGED notDealVars
  \/ ClaimPayment /\ UNCHANGED notDealVars
  \/ ExpireDeal /\ UNCHANGED notDealVars
  \/ UpdateDealStatus /\ UNCHANGED notDealVars
  \/ SetInlineMessageId /\ UNCHANGED notDealVars
  \/ IsDealExpired /\ UNCHANGED notDealVars
  \/ DealTick /\ UNCHANGED notDealVars

StatsNext ==
  \/ UpdateUserStats /\ UNCHANGED <<notStatsVars, dealNow>>
  \/ UpdateUserStatsSecond /\ UNCHANGED <<notStatsVars, dealNow>>
  \/ UpdateUserStatsFailure /\ UNCHANGED <<notStatsVars, dealNow>>

QueueNext ==
  \/ LateClaimPayment /\ UNCHANGED notQueueVars
  \/ GetDealsAwaitingVerificationCall /\ UNCHANGED notQueueVars
  \/ GetDealsAwaitingExecutionCall /\ UNCHANGED notQueueVars
  \/ VerifierRound /\ UNCHANGED notQueueVars
  \/ ExecutorRound /\ UNCHANGED notQueueVars
  \/ QueueTick /\ UNCHANGED notQueueVars

\* The deal service's reads beside the operations that move a deal.
ReadsNext ==
  \/ AcceptDeal /\ UNCHANGED notDealVars
  \/ ClaimPayment /\ UNCHANGED notDealVars
  \/ ExpireDeal /\ UNCHANGED notDealVars
  \/ UpdateDealStatus /\ UNCHANGED notDealVars
  \/ IsDealExpired /\ UNCHANGED notDealVars
  \/ GetDeal /\ UNCHANGED notQueueVars
  \/ GetDealsAwaitingVerificationCall /\ UNCHANGED notQueueVars
  \/ GetDealsAwaitingExecutionCall /\ UNCHANGED notQueueVars
  \/ DealTick /\ UNCHANGED notDealVars

TranscriptNext ==
  \/ AppendToTranscript /\ UNCHANGED notIoVars
  \/ TornWrite /\ UNCHANGED notIoVars
  \/ ReadTranscript /\ UNCHANGED notIoVars

\* The operations that reach the store, succeeding or failing.
StorageNext ==
  \/ AcceptDeal /\ UNCHANGED notDealVars
  \/ ClaimPayment /\ UNCHANGED notDealVars
  \/ ExpireDeal /\ UNCHANGED notDealVars
  \/ GetDeal /\ UNCHANGED notQueueVars
  \/ StoreThrows /\ UNCHANGED <<debVars, statsVars>>
  \/ AppendToTranscriptFails /\ UNCHANGED notIoVars
  \/ ReadTranscript /\ UNCHANGED notIoVars

\* A debouncer that is constructed and never used.
DebIdle ==
  /\ DebInit
  /\ config = [debounceMs |-> 0, maxDebounceMs |-> Unset, maxBufferSize |-> Unset]

\* The debouncer alone: the deal service holds one proposed deal.
InitDebounce ==
  /\ DebInit
  /\ dealNow = 0
  /\ deals = [d \in {1} |-> ProposedRow(d)]
  /\ ret = [op |-> "none", id |-> 0, value |-> FALSE]
  /\ StatsInit
  /\ page = NoPage
  /\ TranscriptInit

SpecDebounce == InitDebounce /\ [][DebNext]_vars

\* The debouncer constructed with maxDebounceMs left to its default.
InitDebounceDefaults ==
  /\ \E c \in DefaultConfigs : DebStart(c)
  /\ dealNow = 0
  /\ deals = [d \in {1} |-> ProposedRow(d)]
  /\ ret = [op |-> "none", id |-> 0, value |-> FALSE]
  /\ StatsInit
  /\ page = NoPage
  /\ TranscriptInit

SpecDebounceDefaults == InitDebounceDefaults /\ [][DebNext]_vars

\* The deal service alone: the debouncer stays as constructed.
InitDeal ==
  /\ DealInit
  /\ DebInit
  /\ config = [debounceMs |-> 0, maxDebounceMs |-> Unset, maxBufferSize |-> Unset]
  /\ StatsInit
  /\ page = NoPage
  /\ TranscriptInit

SpecDeal == InitDeal /\ [][DealNext]_vars

\* The user statistics alone, at one instant of the clock of the deal service.
InitStats ==
  /\ StatsInit
  /\ DebIdle
  /\ dealNow = 0
  /\ deals = [d \in {1} |-> ProposedRow(d)]
  /\ ret = [op |-> "none", id |-> 0, value |-> FALSE]
  /\ page = NoPage
  /\ TranscriptInit

SpecStats == InitStats /\ [][StatsNext]_vars

InitReads == InitDeal

\* The transcript of one session, beside an idle debouncer and deal service.
InitTranscript ==
  /\ TranscriptInit
  /\ DebIdle
  /\ dealNow = 0
  /\ deals = [d \in {1} |-> ProposedRow(d)]
  /\ ret = [op |-> "none", id |-> 0, value |-> FALSE]
  /\ StatsInit
  /\ page = NoPage

SpecTranscript == InitTranscript /\ [][TranscriptNext]_vars

\* The deal table and a transcript that is missing or holds one turn.
InitStorage ==
  /\ DealInit
  /\ DebIdle
  /\ StatsInit
  /\ page = NoPage
  /\ transcript \in {NoFile, [exists |-> TRUE, lines |-> <<JSONstringify(User)>>]}
  /\ loaded = NoLoad
  /\ raised = FALSE

SpecStorage == InitStorage /\ [][StorageNext]_vars

SpecReads == InitReads /\ [][ReadsNext]_vars

\* The work queues and their two workers.
InitQueue ==
  /\ QueueInit
  /\ DebIdle
  /\ StatsInit
  /\ TranscriptInit

SpecQueue == InitQueue /\ [][QueueNext]_vars

\* The workers are fair: each keeps polling while its queue is not empty.
SpecQueueFair ==
  /\ SpecQueue
  /\ WF_vars(VerifierRound /\ UNCHANGED notQueueVars)
  /\ WF_vars(ExecutorRound /\ UNCHANGED notQueueVars)

\* ------------------------------------------------------- debouncer: claims
IsSortedByTimestamp(s) == \A i \in 1..(Len(s) - 1) : s[i].timestamp <= s[i + 1].timestamp
BufferFlushes == { h \in inflight : h.cause # "immediate" }
Buffered(k)   == IF buffers[k] = NoBuf THEN <<>> ELSE heap[buffers[k]].messages
InHeap(id)    == \E b \in DOMAIN heap : id \in Ids(heap[b].messages)
Started       == inflight' \ inflight

C2_LatencyCapped ==
  \A b \in DOMAIN heap :
    heap[b].messages # <<>> => now <= heap[b].openedAt + maxDebounceMs

\* C3: a debounced enqueue for a key whose buffer holds maxBufferSize events
\* hands exactly those events to the handler at once, as one batch; and when
\* that enqueue goes on after the flush, the key's buffer holds only the new
\* event (depth 1) with a timer armed afresh from the current time.
C3_BufferFullFlush ==
  [][ /\ \A k \in Keys, t \in (now - MaxLag)..now, pred \in BOOLEAN :
           LET m == NewMsg(k, t, pred) IN
           (EnqueueCall(k, t, pred) /\ m.debounce /\ getBufferDepth(k) >= maxBufferSize) =>
             \E h \in Started :
               /\ Started = {h}
               /\ Ids(h.batch) = Ids(Buffered(k))
               /\ Len(h.batch) = maxBufferSize
               /\ h.cont.kind = "full" /\ h.cont.msg = m
               /\ handed'[m.id] = 0
      /\ \A h \in inflight, outcome \in {"ok", "error"} :
           (Settles(h, outcome) /\ h.cont.kind = "full") =>
             LET m == h.cont.msg IN
             /\ buffers'[m.chatId] = m.id
             /\ heap'[m.id].messages = <<m>>
             /\ getBufferDepth(m.chatId)' = 1
             /\ heap'[m.id].timer =
                  now + Min(config.debounceMs, Max(0, maxDebounceMs - (now - m.timestamp)))
    ]_vars

\* C3 witness: a buffer-full enqueue has gone on after its flush; the key's
\* buffer is the one it opened, of depth 1.
C3_Witness ==
  \E k \in Keys :
    /\ buffers[k] # NoBuf
    /\ heap[buffers[k]].via = "full"
    /\ getBufferDepth(k) = 1
    /\ heap[buffers[k]].timer # NoTimer

\* C4: an enqueue that is not debounced first flushes the key's buffer, if
\* any, to the handler as one batch without the new event; the new event is
\* handed alone, after that batch's handler has settled, and is never in a
\* buffer.
C4_ImmediateAfterFlush ==
  [][ /\ \A k \in Keys, t \in (now - MaxLag)..now, pred \in BOOLEAN :
           LET m == NewMsg(k, t, pred) IN
           (EnqueueCall(k, t, pred) /\ ~m.debounce) =>
             /\ buffers'[k] = NoBuf
             /\ \E h \in Started :
                  /\ Started = {h}
                  /\ IF buffers[k] # NoBuf
                       THEN /\ Ids(h.batch) = Ids(Buffered(k))
                            /\ Len(h.batch) = Len(Buffered(k))
                            /\ h.cont.kind = "immediate" /\ h.cont.msg = m
                            /\ handed'[m.id] = 0
                       ELSE /\ h.batch = <<m>>
                            /\ h.cont.kind = "end"
      /\ \A h \in inflight, outcome \in {"ok", "error"} :
           (Settles(h, outcome) /\ h.cont.kind = "immediate") =>
             \E h2 \in Started :
               /\ Started = {h2}
               /\ h2.batch = <<h.cont.msg>>
               /\ h2.cont.kind = "end"
      /\ (\A b \in DOMAIN heap : \A i \in 1..Len(heap[b].messages) :
            heap[b].messages[i].debounce)'
    ]_vars

\* C4 witness: the event of a not-debounced enqueue is with the handler, alone,
\* after the flush of the key's buffer.
C4_Witness ==
  \E h \in inflight :
    /\ h.cause = "immediate" /\ h.via = "afterflush"
    /\ Len(h.batch) = 1
    /\ ~InHeap(h.batch[1].id)

\* C5: when a handler invocation fails, onError is called with exactly the
\* batch that failed (and only then); nothing is rethrown to a caller of
\* enqueue or flushAll; and no event is handed to the handler twice.
C5_HandlerErrorsRouted ==
  /\ errors = failed
  /\ thrown = 0
  /\ \A i \in DOMAIN handed : handed[i] <= 1

\* C5 witness: a handler has just failed on a batch of two events.
C5_Witness == Cardinality(failed) = 2 /\ errors = failed

\* C6: when flushAll completes, every event that was buffered when it was
\* called has been handed to the handler; no buffer and no armed timer is left
\* for a key it drained (unless an enqueue for that key was called meanwhile);
\* and at no time are two of its handler invocations pending together.
C6_FlushAllDrains ==
  [][ /\ (fa.st = "running" /\ fa'.st = "done") =>
           /\ \A i \in fa.snapMsgs : handed'[i] >= 1
           /\ \A k \in fa.snapKeys \ fa.touched :
                /\ buffers'[k] = NoBuf
                /\ \A b \in DOMAIN heap' : heap'[b].key = k => heap'[b].timer = NoTimer
      /\ Cardinality({ h \in inflight' : h.cause = "flushAll" }) <= 1
    ]_vars

\* C7: an enqueue for a key never runs while a flush of that key's buffer is
\* awaiting its handler, and no flush of a key starts while an enqueue for that
\* key is suspended.
C7_SameKeySerialized ==
  [][ /\ \A k \in Keys, t \in (now - MaxLag)..now, pred \in BOOLEAN :
           EnqueueCall(k, t, pred) => ~ \E h \in BufferFlushes : h.key = k
      /\ \A h \in Started :
           h.cause \in {"timer", "flushAll"} =>
             ~ \E g \in inflight : g.cont.kind \in {"full", "immediate"} /\ g.key = h.key
    ]_vars

\* ---------------------------------------------------- deal service: claims
LifecycleEdges ==
  { <<"proposed", "accepted">>, <<"accepted", "payment_claimed">>,
    <<"payment_claimed", "verified">>, <<"verified", "completed">>,
    <<"proposed", "declined">>, <<"proposed", "expired">>, <<"accepted", "expired">> }

\* C8: acceptDeal on a deal in 'proposed' returns true, sets status to
\* 'accepted' and expires_at to now + DEAL_VERIFICATION_WINDOW_SECONDS whatever
\* the old expires_at, and changes nothing else; on a deal in any other status
\* (or on no deal) it returns false and leaves the table unchanged.
C8_AcceptDeal ==
  [][ \A d \in DealIds :
        AcceptDealCall(d) =>
          IF d \in DOMAIN deals /\ deals[d].status = "proposed"
            THEN /\ ret'.value
                 /\ deals' = [deals EXCEPT
                      ![d] = [deals[d] EXCEPT
                                !.status = "accepted",
                                !.expires_at = dealNow + DEAL_VERIFICATION_WINDOW_SECONDS]]
            ELSE /\ ~ret'.value
                 /\ deals' = deals
    ]_vars

\* C8 witness: acceptDeal has just returned true, after the clock advanced, on
\* a deal whose old deadline had passed; the new deadline is a window from now.
C8_Witness ==
  /\ ret.op = "acceptDeal" /\ ret.value
  /\ dealNow > 0
  /\ deals[ret.id].status = "accepted"
  /\ deals[ret.id].expires_at = dealNow + DEAL_VERIFICATION_WINDOW_SECONDS

\* C9: claimPayment on a deal in 'accepted' returns true and records the
\* claim time; a second claimPayment on that deal, run right after the winner,
\* returns false and writes nothing, so the status stays 'payment_claimed'
\* and payment_claimed_at stays the time the winner wrote.
C9_OneClaimWins ==
  [][ \A d \in DealIds :
        ClaimPaymentCall(d) =>
          /\ (d \in DOMAIN deals /\ deals[d].status = "accepted") =>
               /\ ret'.value
               /\ deals'[d].status = "payment_claimed"
               /\ deals'[d].payment_claimed_at = dealNow
          /\ (ret.op = "claimPayment" /\ ret.id = d /\ ret.value) =>
               /\ ~ret'.value
               /\ deals' = deals
               /\ deals'[d].status = "payment_claimed"
               /\ deals'[d].payment_claimed_at = deals[d].payment_claimed_at
    ]_vars

\* C9 witness: a claimPayment has just lost: it returned false on a deal that
\* was claimed at this very instant.
C9_Witness ==
  /\ ret.op = "claimPayment" /\ ~ret.value
  /\ ret.id \in DOMAIN deals
  /\ deals[ret.id].status = "payment_claimed"
  /\ deals[ret.id].payment_claimed_at = dealNow
  /\ dealNow > 0

\* C10: every change of a deal's status made by an operation of the deal
\* service is an edge of the lifecycle graph.
C10_LifecycleEdgesOnly ==
  [][ \A d \in DOMAIN deals :
        deals'[d].status # deals[d].status =>
          <<deals[d].status, deals'[d].status>> \in LifecycleEdges
    ]_vars

\* A call of one of the four transition operations, and the rows it changed.
TransitionCall(d) ==
  AcceptDealCall(d) \/ DeclineDealCall(d) \/ ClaimPaymentCall(d) \/ ExpireDealCall(d)
ChangedRows == { x \in DOMAIN deals : deals'[x] # deals[x] }
HasStatus(d, sts) == d \in DOMAIN deals /\ deals[d].status \in sts

\* C11: acceptDeal, declineDeal, claimPayment and expireDeal return true only
\* when exactly one row, the named deal's, was changed; when the conditional
\* update matches no row (no such deal, or a status the operation does not
\* accept, as after a concurrent writer moved the deal) they return false and
\* leave every row unchanged.
C11_FalseWhenNoRowMatches ==
  [][ \A d \in DealIds :
        TransitionCall(d) =>
          /\ ret'.value => ChangedRows = {d}
          /\ ~ret'.value => deals' = deals
          /\ d \notin DOMAIN deals => ~ret'.value
          /\ (ret'.op \in {"acceptDeal", "declineDeal"} /\ ~HasStatus(d, {"proposed"}))
               => ~ret'.value
          /\ (ret'.op = "claimPayment" /\ ~HasStatus(d, {"accepted"})) => ~ret'.value
          /\ (ret'.op = "expireDeal" /\ ~HasStatus(d, {"proposed", "accepted"}))
               => ~ret'.value
    ]_vars

\* C11 witness: a transition operation has returned false for an id that has
\* no row.
C11_Witness ==
  /\ ret.op \in {"acceptDeal", "declineDeal", "claimPayment", "expireDeal"}
  /\ ~ret.value
  /\ ret.id \notin DOMAIN deals

\* C12: expireDeal returns true and sets status 'expired', changing nothing
\* else, exactly when the deal is in 'proposed' or 'accepted'; otherwise it
\* returns false and changes nothing; and no transition operation changes the
\* status of an expired deal.
C12_ExpireOnlyOpenDeals ==
  [][ \A d \in DealIds :
        /\ ExpireDealCall(d) =>
             IF HasStatus(d, {"proposed", "accepted"})
               THEN /\ ret'.value
                    /\ deals' = [deals EXCEPT ![d] = [deals[d] EXCEPT !.status = "expired"]]
               ELSE /\ ~ret'.value
                    /\ deals' = deals
        /\ (TransitionCall(d) /\ HasStatus(d, {"expired"})) =>
             /\ ~ret'.value
             /\ deals'[d].status = "expired"
    ]_vars

\* C12 witness: expireDeal has just expired a deal that had been accepted at
\* this instant.
C12_Witness ==
  /\ ret.op = "expireDeal" /\ ret.value
  /\ deals[ret.id].status = "expired"
  /\ deals[ret.id].expires_at = dealNow + DEAL_VERIFICATION_WINDOW_SECONDS

\* C13: claimPayment returns true exactly on a deal in 'accepted'; it then
\* sets status 'payment_claimed' and payment_claimed_at to the current time
\* and nothing else; it never sets status 'verified' nor writes the
\* verification timestamp.
C13_ClaimOnlyAccepted ==
  [][ \A d \in DealIds :
        ClaimPaymentCall(d) =>
          /\ ret'.value <=> HasStatus(d, {"accepted"})
          /\ ret'.value =>
               deals' = [deals EXCEPT
                 ![d] = [deals[d] EXCEPT !.status = "payment_claimed",
                                         !.payment_claimed_at = dealNow]]
          /\ \A x \in DOMAIN deals :
               /\ deals'[x].user_payment_verified_at = deals[x].user_payment_verified_at
               /\ deals'[x].status = "verified" => deals[x].status = "verified"
    ]_vars

\* C13 witness: claimPayment has just succeeded; the deal is 'payment_claimed'
\* as of now and carries no verification timestamp.
C13_Witness ==
  /\ ret.op = "claimPayment" /\ ret.value
  /\ deals[ret.id].status = "payment_claimed"
  /\ deals[ret.id].payment_claimed_at = dealNow
  /\ deals[ret.id].user_payment_verified_at = NullTime

\* C14: declineDeal returns true and sets status 'declined', changing nothing
\* else, exactly when the deal is in 'proposed'; otherwise it returns false
\* and changes nothing; and acceptDeal, claimPayment and expireDeal leave a
\* declined deal as it is.
C14_DeclineOnlyProposed ==
  [][ \A d \in DealIds :
        /\ DeclineDealCall(d) =>
             IF HasStatus(d, {"proposed"})
               THEN /\ ret'.value
                    /\ deals' = [deals EXCEPT ![d] = [deals[d] EXCEPT !.status = "declined"]]
               ELSE /\ ~ret'.value
                    /\ deals' = deals
        /\ ((AcceptDealCall(d) \/ ClaimPaymentCall(d) \/ ExpireDealCall(d))
             /\ HasStatus(d, {"declined"})) =>
             /\ ~ret'.value
             /\ deals' = deals
    ]_vars

\* C14 witness: expireDeal has just returned false on a declined deal.
C14_Witness ==
  /\ ret.op = "expireDeal" /\ ~ret.value
  /\ ret.id \in DOMAIN deals
  /\ deals[ret.id].status = "declined"

\* C20: isDealExpired returns true exactly when the current time in whole
\* seconds is strictly greater than the deal's expires_at.
C20_ExpiredStrictlyAfterDeadline ==
  [][ \A d \in DealIds :
        IsDealExpiredCall(d) =>
          /\ dealNow > deals[d].expires_at => ret'.value
          /\ dealNow = deals[d].expires_at => ~ret'.value
          /\ dealNow < deals[d].expires_at => ~ret'.value
    ]_vars

\* C20 witness: isDealExpired has just returned false at the very second of
\* the deadline.
C20_Witness ==
  /\ ret.op = "isDealExpired" /\ ~ret.value
  /\ deals[ret.id].expires_at = dealNow

\* ------------------------------------------------- user statistics: claims
StatsCounters(st, u) ==
  IF u \in DOMAIN st
    THEN <<st[u].total_deals, st[u].completed_deals, st[u].total_ton_sent,
           st[u].total_ton_received, st[u].total_gifts_sent, st[u].total_gifts_received>>
    ELSE <<0, 0, 0, 0, 0, 0>>
OtherStatsRowsKept(u) ==
  \A x \in StatsUsers \ {u} :
    /\ x \in DOMAIN stats' <=> x \in DOMAIN stats
    /\ x \in DOMAIN stats => stats'[x] = stats[x]

\* C15: an updateUserStats call for a deal for which a call has already
\* returned leaves every user's counters as they are, at its first statement
\* and at its second.
C15_AccountedOncePerDeal ==
  [][ /\ \A c \in StatsCallers, userId \in StatsUsers, username \in UserNames,
            deal \in StatsDeals, completed \in BOOLEAN :
           (UpdateUserStatsCall(c, userId, username, deal, completed)
              /\ deal.dealId \in accounted) =>
             StatsCounters(stats', userId) = StatsCounters(stats, userId)
      /\ \A c \in StatsCallers :
           (UpdateUserStatsCompletes(c) /\ pendingStats[c].deal.dealId \in accounted) =>
             StatsCounters(stats', pendingStats[c].userId)
               = StatsCounters(stats, pendingStats[c].userId)
    ]_vars

\* C16: the first statement of every updateUserStats call adds exactly 1 to
\* the user's total_deals (creating the row with total_deals = 1 if there is
\* none) and leaves the completed-side counters as they are; with completed =
\* false the call ends there; with completed = true its second statement adds
\* 1 to completed_deals, the deal's TON amounts to the sent and received
\* totals (0 for a side that gives no TON or has no amount) and 1 to the gift
\* counter of each side that gives a gift, and leaves total_deals as it is.
\* No other user's row changes.
C16_StatsIncrements ==
  [][ /\ \A c \in StatsCallers, userId \in StatsUsers, username \in UserNames,
            deal \in StatsDeals, completed \in BOOLEAN :
           UpdateUserStatsCall(c, userId, username, deal, completed) =>
             LET old == StatsCounters(stats, userId)
                 new == StatsCounters(stats', userId)
             IN  /\ userId \in DOMAIN stats'
                 /\ new[1] = old[1] + 1
                 /\ \A i \in 2..6 : new[i] = old[i]
                 /\ OtherStatsRowsKept(userId)
                 /\ completed <=> pendingStats'[c] # NoStatsCall
      /\ \A c \in StatsCallers :
           UpdateUserStatsCompletes(c) =>
             LET userId == pendingStats[c].userId
                 deal == pendingStats[c].deal
                 old == StatsCounters(stats, userId)
                 new == StatsCounters(stats', userId)
             IN  /\ new[1] = old[1]
                 /\ new[2] = old[2] + 1
                 /\ new[3] = old[3] + (IF deal.userGivesType = "ton" /\ deal.userGivesTonAmount # NoAmount
                                         THEN deal.userGivesTonAmount ELSE 0)
                 /\ new[4] = old[4] + (IF deal.agentGivesType = "ton" /\ deal.agentGivesTonAmount # NoAmount
                                         THEN deal.agentGivesTonAmount ELSE 0)
                 /\ new[5] = old[5] + (IF deal.userGivesType = "gift" THEN 1 ELSE 0)
                 /\ new[6] = old[6] + (IF deal.agentGivesType = "gift" THEN 1 ELSE 0)
                 /\ OtherStatsRowsKept(userId)
    ]_vars

\* C16 witness: a user with two recorded deals, one of them completed: 2 TON
\* sent and one gift received.
C16_Witness ==
  \E u \in DOMAIN stats :
    /\ StatsCounters(stats, u) = <<2, 1, 2, 0, 0, 1>>
    /\ begun[u] = 1
    /\ \A c \in StatsCallers : pendingStats[c] = NoStatsCall

\* C17: in every state, the completed_deals of a user counts every
\* completed=true call whose total_deals increment is in the table: no state
\* shows the first write of such a call without its second.
C17_BothWritesOrNeither ==
  \A u \in StatsUsers :
    (IF u \in DOMAIN stats THEN stats[u].completed_deals ELSE 0) = begun[u]


\* --------------------------------------------------------------- work queues
\* ids is a page of the rows Q under ORDER BY key ASC LIMIT PageLimit: rows of
\* Q only, none twice, as many as the limit allows, in ascending key order,
\* and no row left out is older than a row of the page.
IsOldestPage(ids, Q, key) ==
  /\ Range(ids) \subseteq Q
  /\ Cardinality(Range(ids)) = Len(ids)
  /\ Len(ids) <= PageLimit
  /\ Len(ids) = PageLimit \/ Range(ids) = Q
  /\ \A i, j \in 1..Len(ids) : i < j => key[ids[i]] <= key[ids[j]]
  /\ \A x \in Range(ids), y \in Q \ Range(ids) : key[x] <= key[y]

\* C18: getDealsAwaitingVerification returns only 'payment_claimed' deals, in
\* ascending payment_claimed_at order, at most 10 of them and then the 10
\* oldest; getDealsAwaitingExecution returns only 'verified' deals whose
\* agent_sent_at is unset, in ascending user_payment_verified_at order, at
\* most 10; neither query modifies any deal.
C18_QueuePages ==
  [][ /\ GetDealsAwaitingVerificationCall =>
           /\ IsOldestPage(page'.ids,
                { d \in DOMAIN deals : deals[d].status = "payment_claimed" },
                [d \in DOMAIN deals |-> deals[d].payment_claimed_at])
           /\ deals' = deals
      /\ GetDealsAwaitingExecutionCall =>
           /\ IsOldestPage(page'.ids,
                { d \in DOMAIN deals : /\ deals[d].status = "verified"
                                       /\ deals[d].agent_sent_at = NullTime },
                [d \in DOMAIN deals |-> deals[d].user_payment_verified_at])
           /\ deals' = deals ]_vars

\* C18 witness: a verification page cut off by the limit: ten deals of
\* different claim times, all still 'payment_claimed', and a newer one left out.
C18_Witness ==
  /\ page.queue = "verification"
  /\ Len(page.ids) = PageLimit
  /\ \A d \in Range(page.ids) : deals[d].status = "payment_claimed"
  /\ \E d \in Range(page.ids) : deals[d].payment_claimed_at > 0
  /\ \E d \in QueueIds \ Range(page.ids) :
       /\ deals[d].status = "payment_claimed"
       /\ deals[d].payment_claimed_at > 0

ReadCall ==
  \/ \E d \in DealIds : GetDealCall(d) \/ IsDealExpiredCall(d)
  \/ GetDealsAwaitingVerificationCall
  \/ GetDealsAwaitingExecutionCall

Expires(x) == deals[x].status # "expired" /\ deals'[x].status = "expired"

\* C21: the deal engine never self-expires on read: getDeal, isDealExpired
\* and the two queue queries leave every deal unchanged even when
\* now > expires_at, and a status becomes 'expired' only by an expireDeal call.
C21_OnlyExpireDealExpires ==
  [][ /\ ReadCall => deals' = deals
      /\ \A x \in DOMAIN deals : Expires(x) => ExpireDealCall(x) ]_vars

\* ---------------------------------------------------------- transcript: claims
IsToolResult(msg) == msg.role = "toolResult"
Positions(out, role) == { i \in 1..Len(out) : out[i].role = role }

\* The last assistant turn before position j of out (0 if there is none).
LastAssistantBefore(out, j) ==
  LET before == { i \in Positions(out, "assistant") : i < j }
  IN  IF before = {} THEN 0 ELSE CHOOSE i \in before : \A k \in before : k <= i

\* C22: in the sanitized output every tool-result references a call
\* identifier emitted by the most recent assistant turn before it, with no
\* user turn between the two, and no earlier kept tool-result of that turn
\* has the same identifier.
C22_ResultsFollowTheirCall ==
  loaded.called =>
    LET out == loaded.messages IN
    \A j \in Positions(out, "toolResult") :
      LET a == LastAssistantBefore(out, j) IN
      /\ a > 0
      /\ out[j].toolCallId.type = "string"
      /\ out[j].toolCallId.str \in extractToolCallIds(out[a])
      /\ \A k \in (a + 1)..(j - 1) :
           /\ out[k].role # "user"
           /\ IsToolResult(out[k]) => out[k].toolCallId # out[j].toolCallId

\* C22 witness: both results of a two-call turn were kept, a repeated one was
\* dropped.
C22_Witness ==
  /\ loaded.called
  /\ loaded.removedCount = 1
  /\ Len(loaded.messages) = 3
  /\ IsToolResult(loaded.messages[2])
  /\ IsToolResult(loaded.messages[3])

\* The log the sanitizer was given by the read that just returned.
Given ==
  LET parsable == { k \in 1..Len(transcript.lines) : transcript.lines[k].json }
  IN  [i \in 1..Cardinality(parsable) |->
         transcript.lines[CHOOSE k \in parsable :
                            Cardinality({ h \in parsable : h <= k }) = i].value]
Sanitized == loaded.called /\ ~loaded.error /\ transcript.exists

Resolved(out, a, id, u) ==
  \E r \in (a + 1)..(u - 1) : IsToolResult(out[r]) /\ out[r].toolCallId = StrId(id)

\* C23: in the sanitized output a user turn is never preceded by unresolved
\* calls: every call identifier emitted by an assistant turn before a user
\* turn has a matching tool-result before that user turn.
C23_NoUserAfterUnresolvedCalls ==
  loaded.called =>
    LET out == loaded.messages IN
    \A u \in Positions(out, "user"), a \in Positions(out, "assistant") :
      a < u => \A id \in extractToolCallIds(out[a]) : Resolved(out, a, id, u)

\* The results of the assistant turn at position a: the tool-results that
\* follow it immediately.
RECURSIVE ResultsEnd(_, _)
ResultsEnd(log, j) ==
  IF j < Len(log) /\ IsToolResult(log[j + 1]) THEN ResultsEnd(log, j + 1) ELSE j

\* Every tool-result immediately follows the assistant turn that emitted its
\* identifier, one result per call, and every call is resolved before the
\* next turn.
WellFormed(log) ==
  /\ \A j \in Positions(log, "toolResult") : LastAssistantBefore(log, j) > 0
  /\ \A a \in Positions(log, "assistant") :
       LET e == ResultsEnd(log, a) IN
       /\ \A j \in (a + 1)..e : log[j].toolCallId.type = "string"
       /\ \A j, k \in (a + 1)..e : j # k => log[j].toolCallId # log[k].toolCallId
       /\ { log[j].toolCallId.str : j \in (a + 1)..e } = extractToolCallIds(log[a])
  /\ \A j \in Positions(log, "toolResult") :
       j <= ResultsEnd(log, LastAssistantBefore(log, j))

\* C24: a log in which every tool-result immediately follows the assistant
\* turn that emitted its identifier and every call is resolved before the
\* next user or assistant turn is returned with all entries unchanged, in the
\* same order, with zero violations and zero drops.
C24_WellFormedLogUnchanged ==
  Sanitized /\ WellFormed(Given) =>
    /\ loaded.messages = Given
    /\ loaded.warnings = 0
    /\ loaded.removedCount = 0

\* C24 witness: [assistant(callA, callB), toolResult(callA), toolResult(callB),
\* user] was read back.
C24_Witness ==
  /\ Sanitized
  /\ Given = << Assistant(Blocks(<<ToolCall("A"), ToolCall("B")>>)),
                ToolResult(StrId("A")), ToolResult(StrId("B")), User >>
  /\ loaded.messages = Given

\* C25: unresolved calls are counted exactly once per unresolved turn: when
\* an assistant turn is reached while the pending set is non-empty, one
\* violation is counted and the pending set is replaced by the new turn's
\* identifiers; a user turn reached while it is non-empty counts one and
\* empties it.
C25_UnresolvedTurnCountedOnce ==
  Sanitized =>
    \A n \in 1..Len(Given) :
      LET S   == SanitizeTo(Given, n - 1)
          T   == SanitizeTo(Given, n)
          msg == Given[n]
          one == IF S.pendingToolCallIds # {} THEN 1 ELSE 0
      IN  /\ msg.role = "assistant" =>
               /\ T.warnings = S.warnings + one
               /\ T.pendingToolCallIds = extractToolCallIds(msg)
          /\ msg.role = "user" =>
               /\ T.warnings = S.warnings + one
               /\ T.pendingToolCallIds = {}
          /\ msg.role \notin {"assistant", "user"} => T.warnings = S.warnings

\* C26: a tool-result entry is kept if and only if its toolCallId is a
\* non-empty string that is in the pending set when the entry is reached;
\* when kept, its identifier leaves the pending set; when dropped, the
\* pending set is unchanged and the drop count increases by exactly one.
C26_ResultKeptIffPending ==
  Sanitized =>
    \A n \in Positions(Given, "toolResult") :
      LET S    == SanitizeTo(Given, n - 1)
          T    == SanitizeTo(Given, n)
          id   == Given[n].toolCallId
          kept == T.sanitized = Append(S.sanitized, Given[n])
      IN  /\ kept <=> /\ id.type = "string"
                      /\ id.str # ""
                      /\ id.str \in S.pendingToolCallIds
          /\ kept => /\ T.pendingToolCallIds = S.pendingToolCallIds \ {id.str}
                     /\ T.removedCount = S.removedCount
          /\ ~kept => /\ T.sanitized = S.sanitized
                      /\ T.pendingToolCallIds = S.pendingToolCallIds
                      /\ T.removedCount = S.removedCount + 1

\* C26 witness: of three tool-results after a call of A, the first one naming
\* A was kept, the malformed one and the repeated one were dropped.
C26_Witness ==
  /\ Sanitized
  /\ Len(Given) = 4
  /\ Given[1] = Assistant(Blocks(<<TextBlock, ToolCall("A")>>))
  /\ Given[2] = ToolResult(NumId)
  /\ Given[3] = ToolResult(StrId("A"))
  /\ Given[4] = ToolResult(StrId("A"))
  /\ loaded.removedCount = 2
  /\ Len(loaded.messages) = 2

\* s is t with some entries left out.
RECURSIVE IsSubsequence(_, _)
IsSubsequence(s, t) ==
  IF s = <<>> THEN TRUE
  ELSE IF t = <<>> THEN FALSE
  ELSE IF Head(s) = Head(t) THEN IsSubsequence(Tail(s), Tail(t))
  ELSE IsSubsequence(s, Tail(t))

NotToolResults(log) == SelectSeq(log, LAMBDA msg : ~IsToolResult(msg))

\* C27: the sanitizer only filters: its output is an order-preserving
\* subsequence of its input, nothing added, reordered or modified; every
\* assistant turn, user turn and turn of any other kind of the input is in
\* the output, and only tool-result entries are dropped.
C27_OnlyFiltersToolResults ==
  Sanitized =>
    /\ IsSubsequence(loaded.messages, Given)
    /\ NotToolResults(loaded.messages) = NotToolResults(Given)
    /\ Len(loaded.messages) + loaded.removedCount = Len(Given)

\* C27 witness: a user turn with a call pending and a turn of another kind
\* were kept, the late result was dropped.
C27_Witness ==
  /\ Sanitized
  /\ Given = << Assistant(Blocks(<<ToolCall("B")>>)), User, Other, ToolResult(StrId("B")) >>
  /\ loaded.messages = SubSeq(Given, 1, 3)

Unparsable == { k \in 1..Len(transcript.lines) : ~transcript.lines[k].json }

\* C28: when a transcript is read, each unparsable line is skipped on its own
\* and counted and never aborts the pass: every parsable line, before and
\* after a corrupt one, is passed to the sanitizer in its original relative
\* order, and the corrupt count is the number of unparsable lines.
C28_CorruptLinesSkippedAndCounted ==
  Sanitized =>
    /\ loaded.corruptCount = Cardinality(Unparsable)
    /\ loaded.messages = sanitizeMessages(Given).sanitized
    /\ NotToolResults(loaded.messages) = NotToolResults(Given)

\* C28 witness: a file with a corrupt line between two turns and one after
\* them was read: both turns are returned, two lines are counted.
C28_Witness ==
  /\ Sanitized
  /\ Unparsable = {2, 4}
  /\ loaded.corruptCount = 2
  /\ loaded.messages = << Assistant(Blocks(<<ToolCall("B")>>)), ToolResult(StrId("B")) >>

\* C29: sanitization never fails the caller: for every file (missing,
\* unreadable, with corrupt lines, orphaned or malformed tool-results,
\* unresolved calls, records of unknown kind) readTranscript returns a log and
\* does not raise; every line of the file is returned, dropped and counted, or
\* counted as corrupt, and a file that is missing or cannot be read gives the
\* empty log.
C29_ReadNeverRaises ==
  loaded.called =>
    /\ ~raised
    /\ IF transcript.exists /\ ~loaded.error
         THEN Len(loaded.messages) + loaded.removedCount + loaded.corruptCount
                = Len(transcript.lines)
         ELSE loaded.messages = <<>>

\* C29 witness: the read of a file of four lines threw, and the caller got
\* the empty log.
C29_Witness ==
  /\ loaded.called
  /\ loaded.error
  /\ Len(transcript.lines) = 4
  /\ loaded.messages = <<>>
  /\ ~raised

\* ------------------------------------------------------------ storage failures
\* C30: a storage failure at any read or write site is caught and degrades
\* to a safe default: no exception reaches the caller.
C30_StorageFailuresCaught == ~raised

\* ------------------------------------------------- debouncer: per-key claims
\* The buffer objects of key k: the one in the map and those only a timer holds.
OfKey(hp, k) == [b \in { x \in DOMAIN hp : hp[x].key = k } |-> hp[b]]
KeyKept(k)   == buffers'[k] = buffers[k] /\ OfKey(heap', k) = OfKey(heap, k)

\* C31: operations on different chat keys are independent: an enqueue for a
\* key, the firing of a timer armed for a key, and the failure of a handler
\* invocation on a batch of a key (other than the one flushAll awaits, after
\* which flushAll goes on to its next key) leave the buffered events and the
\* armed timers of every other key unchanged; and every batch and every
\* buffer holds events of one key only.
C31_KeysIndependent ==
  [][ /\ \A k \in Keys, t \in (now - MaxLag)..now, pred \in BOOLEAN :
           EnqueueCall(k, t, pred) => \A k2 \in Keys \ {k} : KeyKept(k2)
      /\ \A b \in DOMAIN heap :
           TimerFires(b) => \A k2 \in Keys \ {heap[b].key} : KeyKept(k2)
      /\ \A h \in inflight :
           (Settles(h, "error") /\ h.cont.kind # "flushAll") =>
             \A k2 \in Keys \ {h.key} : KeyKept(k2)
      /\ \A h \in inflight' : \A i \in 1..Len(h.batch) : h.batch[i].chatId = h.key
      /\ \A b \in DOMAIN heap' : \A i \in 1..Len(heap'[b].messages) :
           heap'[b].messages[i].chatId = heap'[b].key
    ]_vars

\* C31 witness: the buffer of one key has been flushed by its timer and the
\* batch is with the handler, while another key still has its buffer with
\* its timer armed.
C31_Witness ==
  \E h \in inflight, k \in Keys :
    /\ h.cause = "timer" /\ h.key # k
    /\ buffers[k] # NoBuf
    /\ heap[buffers[k]].timer # NoTimer
    /\ Len(heap[buffers[k]].messages) >= 1

\* The buffer objects of key k that hold an armed timer.
ArmedFor(k) == { b \in DOMAIN heap : heap[b].key = k /\ heap[b].timer # NoTimer }

\* C32: in every reachable state each chat key is either absent (no buffer in
\* the map and no armed timer for the key) or buffering (a non-empty buffer in
\* the map and exactly one armed timer, the one of that buffer); and a flush
\* of a key's buffer leaves the key absent.
C32_AbsentOrBuffering ==
  [][ /\ \A k \in Keys :
           (IF buffers[k] = NoBuf
              THEN ArmedFor(k) = {}
              ELSE /\ heap[buffers[k]].messages # <<>>
                   /\ ArmedFor(k) = {buffers[k]})'
      /\ \A h \in Started :
           h.cause # "immediate" => (buffers[h.key] = NoBuf /\ ArmedFor(h.key) = {})'
    ]_vars

\* C33: in every reachable state the buffer of each chat key (and every
\* buffer object a timer still holds) has at most maxBufferSize events, and
\* every batch handed to the handler by a buffer flush has at most
\* maxBufferSize events.
C33_BufferBounded ==
  /\ \A k \in Keys : getBufferDepth(k) <= maxBufferSize
  /\ \A b \in DOMAIN heap : Len(heap[b].messages) <= maxBufferSize
  /\ \A h \in BufferFlushes : Len(h.batch) <= maxBufferSize

\* C33 witness: an enqueue found the buffer full with two events, the batch
\* of those two is with the handler.
C33_Witness ==
  \E h \in BufferFlushes :
    /\ h.cause = "full"
    /\ maxBufferSize = 2
    /\ Len(h.batch) = maxBufferSize

\* The delay as the claim states it, from the configuration alone.
ClaimedDelay(first) ==
  LET maxWait == IF config.maxDebounceMs # Unset THEN config.maxDebounceMs
                 ELSE config.debounceMs * DEBOUNCE_MAX_MULTIPLIER
      elapsed == now - first.timestamp
      budget  == IF maxWait - elapsed > 0 THEN maxWait - elapsed ELSE 0
  IN  IF config.debounceMs <= budget THEN config.debounceMs ELSE budget

\* The buffer of key k holds event m last and its timer is armed as claimed.
ArmedAsClaimed(k, m) ==
  LET b     == buffers'[k]
      buf   == heap'[b]
      delay == buf.timer - now
  IN  /\ b # NoBuf
      /\ buf.messages[Len(buf.messages)] = m
      /\ buf.timer # NoTimer
      /\ delay = ClaimedDelay(buf.messages[1])
      /\ delay >= 0
      /\ delay <= config.debounceMs

\* C34: each time a debounced event is buffered (pushed onto the key's
\* buffer, or opening a buffer, at once or after the buffer-full flush), the
\* timer of that buffer is armed with delay
\* min(debounceMs, max(0, maxDebounceMs - elapsed)), where elapsed is the
\* current time minus the timestamp of the buffer's first event and
\* maxDebounceMs is debounceMs * DEBOUNCE_MAX_MULTIPLIER when not configured;
\* the delay is never negative and never larger than debounceMs.
C34_TimerDelayClamped ==
  [][ /\ \A k \in Keys, t \in (now - MaxLag)..now, pred \in BOOLEAN :
           LET m == NewMsg(k, t, pred) IN
           (EnqueueCall(k, t, pred) /\ m.debounce /\ getBufferDepth(k) < maxBufferSize) =>
             ArmedAsClaimed(k, m)
      /\ \A h \in inflight, outcome \in {"ok", "error"} :
           (Settles(h, outcome) /\ h.cont.kind = "full") =>
             ArmedAsClaimed(h.cont.msg.chatId, h.cont.msg)
    ]_vars

\* C34 witness: with maxDebounceMs left to its default, a second event was
\* buffered so late that its timer was armed with the rest of the budget,
\* less than debounceMs.
C34_Witness ==
  \E k \in Keys :
    /\ config.maxDebounceMs = Unset
    /\ buffers[k] # NoBuf
    /\ Len(heap[buffers[k]].messages) >= 2
    /\ heap[buffers[k]].timer # NoTimer
    /\ heap[buffers[k]].timer <
         heap[buffers[k]].messages[Len(heap[buffers[k]].messages)].timestamp + config.debounceMs
    /\ heap[buffers[k]].timer =
         heap[buffers[k]].messages[1].timestamp + config.debounceMs * DEBOUNCE_MAX_MULTIPLIER

\* Event i is still on its way to the handler: it is in the buffer the map
\* holds for some key, or it is the event of an enqueue suspended before it
\* buffers or processes it.
OnItsWay(i) ==
  \/ \E k \in Keys : i \in Ids(Buffered(k))
  \/ \E h \in inflight : h.cont.kind \in {"full", "immediate"} /\ h.cont.msg.id = i

\* C35: no event is lost or duplicated: every event accepted by enqueue has
\* been handed to the handler in exactly one batch, or is still on its way to
\* it (in its key's buffer, whose timer or flushAll will flush it, or with a
\* suspended enqueue); none is handed twice.
C35_NoEventLostOrDuplicated ==
  \A i \in 1..nEnq :
    /\ handed[i] <= 1
    /\ handed[i] = 0 => OnItsWay(i)

\* ------------------------------------------------ deal service: races, frames
\* The last call was op on deal d and it won (returned true).
Won(op, d) == ret = [op |-> op, id |-> d, value |-> TRUE]

\* The call of this step lost: it returned false and changed no row.
Loses == ~ret'.value /\ deals' = deals

\* C36: mutually exclusive transitions cannot both win. Of acceptDeal and
\* declineDeal called one after the other, in either order, on a 'proposed'
\* deal, the first returns true and the second false; the same holds of
\* claimPayment and expireDeal on an 'accepted' deal; the status stays the
\* one the winner wrote.
C36_OneOfTwoWins ==
  [][ \A d \in DealIds :
        /\ (d \in DOMAIN deals /\ deals[d].status = "proposed") =>
              /\ AcceptDealCall(d)  => ret'.value /\ deals'[d].status = "accepted"
              /\ DeclineDealCall(d) => ret'.value /\ deals'[d].status = "declined"
        /\ (d \in DOMAIN deals /\ deals[d].status = "accepted") =>
              /\ ClaimPaymentCall(d) => ret'.value /\ deals'[d].status = "payment_claimed"
              /\ ExpireDealCall(d)   => ret'.value /\ deals'[d].status = "expired"
        /\ (Won("acceptDeal", d) /\ DeclineDealCall(d)) => Loses /\ deals'[d].status = "accepted"
        /\ (Won("declineDeal", d) /\ AcceptDealCall(d)) => Loses /\ deals'[d].status = "declined"
        /\ (Won("claimPayment", d) /\ ExpireDealCall(d)) =>
              Loses /\ deals'[d].status = "payment_claimed"
        /\ (Won("expireDeal", d) /\ ClaimPaymentCall(d)) => Loses /\ deals'[d].status = "expired"
    ]_vars

\* C36 witness: expireDeal has just lost against a claimPayment made at the
\* same instant; the deal is 'payment_claimed'.
C36_Witness ==
  /\ ret = [op |-> "expireDeal", id |-> 1, value |-> FALSE]
  /\ deals[1].status = "payment_claimed"
  /\ deals[1].payment_claimed_at = dealNow

\* C37: the guarded transitions depend on the status only, never on the
\* deadline: after the deadline (now > expires_at), acceptDeal on a deal that
\* is still 'proposed' and claimPayment on a deal that is still 'accepted'
\* return true and move the deal.
C37_DeadlineNotEnforced ==
  [][ \A d \in DealIds :
        (d \in DOMAIN deals /\ dealNow > deals[d].expires_at) =>
          /\ (deals[d].status = "proposed" /\ AcceptDealCall(d)) =>
                ret'.value /\ deals'[d].status = "accepted"
          /\ (deals[d].status = "accepted" /\ ClaimPaymentCall(d)) =>
                ret'.value /\ deals'[d].status = "payment_claimed"
    ]_vars

\* C37 witness: a payment has just been claimed after the deal's deadline.
C37_Witness ==
  /\ ret = [op |-> "claimPayment", id |-> 1, value |-> TRUE]
  /\ deals[1].status = "payment_claimed"
  /\ deals[1].payment_claimed_at = dealNow
  /\ dealNow > deals[1].expires_at

\* The step changed at most the columns cols of row d, and nothing else in
\* the table.
ChangedOnly(d, cols) ==
  /\ DOMAIN deals' = DOMAIN deals
  /\ \A x \in DOMAIN deals :
       /\ DOMAIN deals'[x] = DOMAIN deals[x]
       /\ \A c \in DOMAIN deals[x] :
            (x # d \/ c \notin cols) => deals'[x][c] = deals[x][c]

\* C38: a successful transition changes only its own fields of the deal it
\* names: declineDeal and expireDeal only status; acceptDeal only status and
\* expires_at; claimPayment only status and payment_claimed_at;
\* setInlineMessageId only inline_message_id. The id, the participant, the
\* chat, both offers, the profit, created_at and every other deal stay as
\* they were.
C38_TransitionFrames ==
  [][ \A d \in DealIds :
        /\ (DeclineDealCall(d) /\ ret'.value) => ChangedOnly(d, {"status"})
        /\ (ExpireDealCall(d) /\ ret'.value) => ChangedOnly(d, {"status"})
        /\ (AcceptDealCall(d) /\ ret'.value) => ChangedOnly(d, {"status", "expires_at"})
        /\ (ClaimPaymentCall(d) /\ ret'.value) =>
              ChangedOnly(d, {"status", "payment_claimed_at"})
        /\ \A mid \in InlineIds :
              (SetInlineMessageIdCall(d, mid) /\ d \in DOMAIN deals) =>
                ChangedOnly(d, {"inline_message_id"})
    ]_vars

\* C38 witness: a deal whose inline message id had been set has just been
\* accepted: its deadline is new, its other columns and the other deal are
\* as they were.
C38_Witness ==
  /\ ret = [op |-> "acceptDeal", id |-> 1, value |-> TRUE]
  /\ deals[1].status = "accepted"
  /\ deals[1].expires_at # ProposedRow(1).expires_at
  /\ deals[1].inline_message_id = "msg"
  /\ deals[1].profit_ton = ProposedRow(1).profit_ton
  /\ deals[OtherDeal].status = "proposed"

\* ------------------------------------------------- transcript: idempotence
\* C39: the sanitizer is idempotent: applied to its own output it returns
\* that output unchanged and drops nothing.
C39_SanitizerIdempotent ==
  Sanitized =>
    LET again == sanitizeMessages(loaded.messages)
    IN  /\ loaded.messages = sanitizeMessages(Given).sanitized
        /\ again.sanitized = loaded.messages
        /\ again.removedCount = 0

\* C39 witness: a log from which the sanitizer dropped two tool-results and
\* kept one; its output is a log the sanitizer returns as it is.
C39_Witness ==
  /\ Sanitized
  /\ Given = << Assistant(Blocks(<<ToolCall("A"), ToolCall("B")>>)), ToolResult(StrId("A")),
                ToolResult(StrId("A")), ToolResult(NoId) >>
  /\ loaded.messages = SubSeq(Given, 1, 2)
  /\ loaded.removedCount = 2
  /\ sanitizeMessages(loaded.messages).sanitized = loaded.messages

====
